---- MODULE Spec2Model ----
(***************************************************************************)
(* A model of the sports-statistics ingestion pipeline: the three          *)
(* rate-limited, cache-backed HTTP clients (NHL, PGA, NFL), the golf and    *)
(* NFL collectors with their SQLite tables, the NHL roster collector and    *)
(* the NHL database loader.                                                 *)
(*                                                                         *)
(* Time is counted in tenths of a second.  The clients never use an        *)
(* absolute time: _rate_limit reads time.monotonic() - _last_request_time   *)
(* and _read_cache reads time.time() - st_mtime, so the model keeps these   *)
(* two differences (elapsed, and the age of every cache file) and lets the  *)
(* action Tick advance both.  Both saturate at a cap that lies above every   *)
(* value they are compared with inside the bounded horizon.                 *)
(***************************************************************************)
EXTENDS Integers, Sequences, FiniteSets, TLC

\* ------------------------------------------------------------------------
\* Bounds of the model
\* ------------------------------------------------------------------------
AgeCap == 3
MaxPages == 2
MaxRuns == 2
MaxRecords == 3
\* page_size of the statistics collectors (100), scaled down
PageSize == 2

\* ------------------------------------------------------------------------
\* Program constants (times in tenths of a second)
\* ------------------------------------------------------------------------
NhlRateLimitDelay == 4
GolfRateLimitDelay == 6
NflRateLimitDelay == 11
NhlRetryTotal == 4
GolfRetryTotal == 3
NflRetryTotal == 3
DEFAULT_CACHE_TTL == 36000
STATUS_FORCELIST == {429, 500, 502, 503, 504}

Clients == {"nhl", "golf", "nfl"}

RATE_LIMIT_DELAY(c) ==
    CASE c = "nhl" -> NhlRateLimitDelay
      [] c = "golf" -> GolfRateLimitDelay
      [] OTHER -> NflRateLimitDelay

RetryTotal(c) ==
    CASE c = "nhl" -> NhlRetryTotal
      [] c = "golf" -> GolfRetryTotal
      [] OTHER -> NflRetryTotal

\* ------------------------------------------------------------------------
\* Values
\* ------------------------------------------------------------------------
\* Python's None.  It is what _read_cache returns for a missing or expired
\* file, and also what json.loads gives for the JSON text "null".
None == "None"
\* Parsed JSON bodies an upstream may send: null, [], {}, an object holding
\* records and no next cursor, an object holding records and a next cursor,
\* an object holding a next cursor and no records.
Payloads == {None, "EmptyList", "EmptyObj", "Data", "More", "MoreEmpty"}
\* A 200 response whose body is not JSON: response.json() raises.
BadJson == "BadJson"
\* The requests the model issues.  For the NFL client k1 is the first page of
\* an endpoint (no cursor) and k2 the page named by the next_cursor of "More".
Keys == {"k1", "k2"}
NoFile == [payload |-> "NoFile", age |-> 0]
\* ttl arguments a caller may pass; NoTtl is the default ttl=None.
NoTtl == -1
TtlSet == {NoTtl, 0, 2}
\* A transport failure (timeout, connection error) instead of a status.
TransportError == 0
\* No HTTP attempt was made.
NoStatus == -1
StatusSet == {200, 404} \cup STATUS_FORCELIST \cup {TransportError}

Min(a, b) == IF a < b THEN a ELSE b

VARIABLES
    client,       \* which client class this instance is
    use_cache,    \* self.use_cache
    cache,        \* cache_dir: key -> NoFile or [payload, age of the file]
    elapsed,      \* time.monotonic() - self._last_request_time, saturating
    pc,           \* "idle", "inflight" (inside session.get), "next" (NFL loop)
    key,          \* cache key of the page being fetched
    ttl_arg,      \* the ttl argument of the call in progress (NoTtl: none)
    attempts,     \* HTTP attempts made by the session.get in progress
    lastStatus,   \* status of the latest HTTP attempt of the latest session.get
    all_data,     \* NFL: records accumulated by _get_all_pages
    result,       \* outcome of the latest call: [kind, value]
    look,         \* history: the latest cache check: the file it found, the
                  \* session.get calls it led to, and a bit flipped by each check
    called,       \* history: some session.get has completed
    sinceDone,    \* history: time since the latest session.get completed
    trail         \* history, NFL: the pages the call in progress has read

httpVars == <<client, use_cache, cache, elapsed, pc, key, ttl_arg, attempts,
              lastStatus, all_data, result, look, called, sinceDone, trail>>

\* The collectors and loaders, each with its own database; program names the
\* one this run of the model follows.
VARIABLES
    program,                   \* "golf", "nfl" or "nhl"
    runs,                      \* collector / loader runs started so far
    board,                     \* golf upstream: tournament -> leaderboardRows
    completed,                 \* golf upstream: tournaments that have ended
    raw_results,               \* RESULTS_DIR: tournament -> NoRaw or saved rows
    golf_tournaments,          \* table golf_tournaments
    golf_results,              \* table golf_results, in rowid order
    golf_player_season_stats,  \* table golf_player_season_stats, in rowid order
    golf_fresh                 \* history: a run has completed and upstream
                               \* has not changed since

golfVars == <<board, completed, raw_results, golf_tournaments, golf_results,
              golf_player_season_stats, golf_fresh>>

VARIABLES
    nfl_upstream,      \* NFL upstream: postseason flag -> season_stats records
    nfl_teams,         \* table nfl_teams: the ids stored
    nfl_standings,     \* table nfl_standings: [rows, seq]
    nfl_player_stats,  \* table nfl_player_stats: [rows, seq]
    nfl_latest,        \* history: per key upstream returned to a load, the
                       \* values of the latest load that carried it
    nfl_fresh          \* history: a run without rebuild has loaded both
                       \* kinds of statistics and upstream has not changed
                       \* since

nflVars == <<nfl_upstream, nfl_teams, nfl_standings, nfl_player_stats,
             nfl_latest, nfl_fresh>>

VARIABLES
    skater_file,      \* skater_stats_<SeasonId>.json: [exists, data]
    goalie_file,      \* goalie_stats_<SeasonId>.json: [exists, data]
    players_json,     \* all_players.json: [exists, data]
    teams,            \* table teams: the ids stored
    players,          \* table players: the rows stored, one per id
    skater_stats,     \* table skater_stats: [rows, seq]
    goalie_stats,     \* table goalie_stats: [rows, seq]
    standings,        \* table standings: [rows, seq]
    loader_raised     \* the latest run_loader ended in an exception

nhlVars == <<skater_file, goalie_file, players_json, teams, players,
             skater_stats, goalie_stats, standings, loader_raised>>

\* collect_rosters
VARIABLES
    roster_teams,     \* the teams given, by their "abbrev"
    roster_i,         \* teams of the list already visited
    roster_pc,        \* "off", "loop" or "done"
    rosters_by_team,  \* the dict, as its (abbrev, roster) items in order
    all_players,      \* the dict's values, in order
    roster_files,     \* abbrevs with a roster_<abbrev>_<season>.json saved
    roster_log,       \* abbrevs a warning was logged for, in order
    roster_raised     \* history: abbrevs whose get_team_roster raised

rosterVars == <<roster_teams, roster_i, roster_pc, rosters_by_team,
                all_players, roster_files, roster_log, roster_raised>>

\* collect_skater_stats
VARIABLES
    pg_upstream,      \* the skaters upstream holds, in its sort order
    pg_start,         \* start: the offset of the next page
    pg_all,           \* all_skaters
    pg_pc,            \* "off", "loop", "break" (the loop is left) or "done"
    pg_failed         \* history: a page request raised

pageVars == <<pg_upstream, pg_start, pg_all, pg_pc, pg_failed>>

\* One run of a collector or loader, step by step.
VARIABLES
    pe_state,         \* "off", "running", "returned" or "raised"
    pe_fail,          \* the load step whose database call raises, or "none"
    pe_steps,         \* history: the steps of the run so far, each with
                      \* how it ended
    pe_logged         \* the steps a warning was logged for

persistVars == <<pe_state, pe_fail, pe_steps, pe_logged>>

\* The raw snapshot files of the NHL collector and the golf collector.
VARIABLES
    sn_upstream,      \* resource -> the data upstream holds for it now
    sn_files,         \* resource -> the data in its file, or "none"
    sn_run            \* history, resource -> what the latest run did:
                      \* "unreached", "failed", "kept" (the file was there
                      \* and no request was made) or "saved"

snapshotVars == <<sn_upstream, sn_files, sn_run>>

\* A golf collector run that is killed, and the run that follows it.
VARIABLES
    rs_torn,          \* tournaments whose raw file the kill left half-written
    rs_killed,        \* the run before was killed
    rs_raised         \* the run after the kill ended in an exception

restartVars == <<rs_torn, rs_killed, rs_raised>>

\* One invocation of a collector from the command line.
VARIABLES
    ex_outcome,       \* history, resource -> what its request brought:
                      \* "data", "empty" (a payload with no records) or
                      \* "failed" (the request raised)
    ex_status,        \* the exit status of the process, -1 while there is none
    ex_collected,     \* the resources data was collected for
    ex_logged         \* the resources a warning was logged for

exitVars == <<ex_outcome, ex_status, ex_collected, ex_logged>>

\* History of the last run of a loader with a store.
VARIABLES
    rb_last,          \* "rebuild", "keep" (a run without the flag), or "none"
    rb_before         \* the number of fact rows in the store before that run

rebuildVars == <<rb_last, rb_before>>

\* One skater record on its way from the statistics endpoint to the store.
VARIABLES
    sk_upstream,      \* the record of the endpoint
    sk_json,          \* the record of skater_stats_<season>.json, if saved
    sk_stored         \* the row of skater_stats, if loaded

skaterVars == <<sk_upstream, sk_json, sk_stored>>

\* The cache file of the NHL client for /standings/now, which get_teams and
\* get_standings share.
VARIABLES
    st_upstream,      \* the standings the endpoint serves now
    st_file,          \* NoFile or [payload, age of the file]
    st_got,           \* history: [by, age]: the call that fetched the payload
                      \* of the file, and the time since it did
    st_result         \* the latest call: [call, kind, age of the payload
                      \* it returned when it was fetched, or -1]

standingsVars == <<st_upstream, st_file, st_got, st_result>>

\* An NFL upstream that serves an endpoint in finitely many pages.
VARIABLES
    feed              \* cursor key -> the page the upstream serves for it

\* build_season_stats statement by statement.  golf_player_season_stats
\* is the table as committed, which is what another connection reads.
VARIABLES
    tx_phase,         \* "idle", "loaded" (the results of the run are stored),
                      \* "deleted", "inserted", "failed" (the INSERT raised)
    tx_pending,       \* the rows of the table in the writer's open transaction
    tx_old,           \* history: the table when build_season_stats began
    tx_last,          \* history: how the latest build ended
    tx_seen           \* history: the latest read of another connection:
                      \* [phase, rows, old]

txnVars == <<tx_phase, tx_pending, tx_old, tx_last, tx_seen>>

laterVars == <<skaterVars, standingsVars, feed, txnVars>>

extraVars == <<persistVars, snapshotVars, restartVars, exitVars, rebuildVars,
               laterVars>>

storeVars == <<program, runs, golfVars, nflVars, nhlVars, rosterVars, pageVars,
               extraVars>>

vars == <<httpVars, storeVars>>

\* ------------------------------------------------------------------------
\* The HTTP clients
\* ------------------------------------------------------------------------

\* ttl resolution: _get uses "ttl if ttl is not None else self.cache_ttl",
\* _get_all_pages uses "ttl or DEFAULT_CACHE_TTL".
EffectiveTtl(c, t) ==
    IF c = "nfl"
    THEN IF t = NoTtl \/ t = 0 THEN DEFAULT_CACHE_TTL ELSE t
    ELSE IF t # NoTtl THEN t ELSE DEFAULT_CACHE_TTL

\* _read_cache: None when the file is missing or older than ttl, else the
\* parsed content of the file.
ReadCache(k, t) ==
    IF cache[k] = NoFile THEN None
    ELSE IF cache[k].age > t THEN None
    ELSE cache[k].payload

\* _write_cache: the file is replaced and its mtime is now.
WriteCache(k, data) == [cache EXCEPT ![k] = [payload |-> data, age |-> 0]]

\* The value the cache lookup hands to the caller's "is not None" test.
Cached(k, t) == IF use_cache THEN ReadCache(k, t) ELSE None

\* _rate_limit: the time slept before an outbound request.
RateLimitSleep(c, e) ==
    IF e < RATE_LIMIT_DELAY(c) THEN RATE_LIMIT_DELAY(c) - e ELSE 0

\* The passing of d tenths of a second.
Aged(ch, d) ==
    [k \in Keys |-> IF ch[k] = NoFile THEN NoFile
                    ELSE [ch[k] EXCEPT !.age = Min(AgeCap, @ + d)]]
Later(e, d) == Min(RATE_LIMIT_DELAY(client), e + d)

\* The records of a page and its next cursor (page_data.get("data", []),
\* meta.get("next_cursor")).
Records(p) ==
    CASE p = "More" -> <<"r1", "r2">>
      [] p = "Data" -> <<"r2">>
      [] OTHER -> <<>>

\* (variant of NextCursor that finds a cursor in every page)
NextCursorAlways(p) == "k2"

NextCursor(p) == IF p \in {"More", "MoreEmpty"} THEN "k2" ELSE None

\* (variant of CacheKey that leaves the cursor out of the key)
CacheKeyNoCursor(k, cursor) == k

\* _cache_key(endpoint, page_params): the key of the page that cursor leads
\* to, for the endpoint and parameters whose first page has key k. The
\* digest covers page_params, and page_params holds the cursor.
CacheKey(k, cursor) == IF cursor = None THEN k ELSE cursor

\* (variant of Extend that leaves out the records already gathered)
ExtendNew(acc, records) ==
    acc \o SelectSeq(records, LAMBDA r : \A i \in DOMAIN acc : acc[i] # r)

\* all_data.extend(records)
Extend(acc, records) == acc \o records

\* What a call does with the body p it obtained for key k, from the cache or
\* the network, acc being the records gathered so far.  _get returns it.
\* _get_all_pages reads it as an object (a list or None has no .get and
\* raises AttributeError), appends its records, and either returns all_data
\* or goes on to the page of the next cursor.
GotPage(k, acc, p, how) ==
    IF client # "nfl"
    THEN /\ pc' = "idle"
         /\ result' = [kind |-> how, value |-> p]
         /\ key' = k
         /\ all_data' = acc
         /\ trail' = <<>>
    ELSE IF p \in {None, "EmptyList"}
    THEN /\ pc' = "idle"
         /\ result' = [kind |-> "raise", value |-> "AttributeError"]
         /\ key' = k
         /\ all_data' = acc
         /\ trail' = (IF acc = <<>> THEN <<>> ELSE trail)
                        \o <<[key |-> k, page |-> p, how |-> how]>>
    ELSE IF NextCursor(p) = None \/ Records(p) = <<>>
    THEN /\ pc' = "idle"
         /\ result' = [kind |-> how, value |-> Extend(acc, Records(p))]
         /\ key' = k
         /\ all_data' = Extend(acc, Records(p))
         /\ trail' = (IF acc = <<>> THEN <<>> ELSE trail)
                        \o <<[key |-> k, page |-> p, how |-> how]>>
    ELSE /\ pc' = "next"
         /\ result' = [kind |-> "none", value |-> None]
         /\ key' = CacheKey(k, NextCursor(p))
         /\ all_data' = Extend(acc, Records(p))
         /\ trail' = (IF acc = <<>> THEN <<>> ELSE trail)
                        \o <<[key |-> k, page |-> p, how |-> how]>>

\* The ttl a caller asked for: its argument, or the default when it gave none.
SuppliedTtl(t) == IF t = NoTtl THEN DEFAULT_CACHE_TTL ELSE t

\* What a cache check found, kept for the properties: whether caching is on
\* and the file exists, and whether it is older than the ttl asked for.
Seen(k, t, n) ==
    [present |-> use_cache /\ cache[k] # NoFile,
     expired |-> use_cache /\ cache[k] # NoFile /\ cache[k].age > SuppliedTtl(t),
     gets |-> n, seq |-> 1 - look.seq, key |-> k]

\* (variant of Lookup in which _rate_limit runs before the cache is read)
LookupRateLimitFirst(k, t, acc) ==
    IF Cached(k, EffectiveTtl(client, t)) # None
    THEN /\ GotPage(k, acc, Cached(k, EffectiveTtl(client, t)), "hit")
         /\ look' = Seen(k, t, 0)
         /\ attempts' = 0
         /\ lastStatus' = NoStatus
         /\ cache' = Aged(cache, RateLimitSleep(client, elapsed))
         /\ elapsed' = Later(elapsed, RateLimitSleep(client, elapsed))
         /\ sinceDone' = Later(sinceDone, RateLimitSleep(client, elapsed))
         /\ trail' = IF acc = <<>> THEN <<>> ELSE trail
         /\ UNCHANGED called
    ELSE /\ pc' = "inflight"
         /\ look' = Seen(k, t, 1)
         /\ key' = k
         /\ all_data' = acc
         /\ result' = [kind |-> "none", value |-> None]
         /\ attempts' = 0
         /\ lastStatus' = NoStatus
         /\ cache' = Aged(cache, RateLimitSleep(client, elapsed))
         /\ elapsed' = Later(elapsed, RateLimitSleep(client, elapsed))
         /\ sinceDone' = Later(sinceDone, RateLimitSleep(client, elapsed))
         /\ trail' = IF acc = <<>> THEN <<>> ELSE trail
         /\ UNCHANGED called

\* One pass of the cache check that opens _get and every iteration of the
\* loop of _get_all_pages, t being the call's ttl argument: a hit is used as
\* it is; a miss runs _rate_limit (the sleep is time passing) and enters
\* session.get.
Lookup(k, t, acc) ==
    IF Cached(k, EffectiveTtl(client, t)) # None
    THEN /\ GotPage(k, acc, Cached(k, EffectiveTtl(client, t)), "hit")
         /\ look' = Seen(k, t, 0)
         /\ attempts' = 0
         /\ lastStatus' = NoStatus
         /\ UNCHANGED <<cache, elapsed, called, sinceDone>>
    ELSE /\ pc' = "inflight"
         /\ look' = Seen(k, t, 1)
         /\ key' = k
         /\ all_data' = acc
         /\ result' = [kind |-> "none", value |-> None]
         /\ attempts' = 0
         /\ lastStatus' = NoStatus
         /\ cache' = Aged(cache, RateLimitSleep(client, elapsed))
         /\ elapsed' = Later(elapsed, RateLimitSleep(client, elapsed))
         /\ sinceDone' = Later(sinceDone, RateLimitSleep(client, elapsed))
         /\ trail' = IF acc = <<>> THEN <<>> ELSE trail
         /\ UNCHANGED called

\* A caller invokes _get(url, params, ttl) or _get_all_pages(endpoint,
\* params, ttl); the latter starts at the page without a cursor.
Request(k, t) ==
    /\ pc = "idle"
    /\ client = "nfl" => k = "k1"
    /\ ttl_arg' = t
    /\ Lookup(k, t, <<>>)
    /\ UNCHANGED <<client, use_cache>>

\* The next iteration of the while loop of _get_all_pages.
NextPage ==
    /\ pc = "next"
    /\ Len(trail) < MaxPages
    /\ Lookup(key, ttl_arg, all_data)
    /\ UNCHANGED <<client, use_cache, ttl_arg>>

\* (variant of Raise in which a failed request removes the entry of its key)
RaiseDroppingEntry(exc) ==
    /\ pc' = "idle"
    /\ result' = [kind |-> "raise", value |-> exc]
    /\ elapsed' = 0
    /\ cache' = [cache EXCEPT ![key] = NoFile]
    /\ UNCHANGED <<key, all_data, trail>>

\* (variant of Raise in which only a successful request records its time)
RaiseNoFinally(exc) ==
    /\ pc' = "idle"
    /\ result' = [kind |-> "raise", value |-> exc]
    /\ UNCHANGED <<cache, key, all_data, elapsed, trail>>

\* The call leaves session.get / raise_for_status by an exception: the
\* finally clause records the request time and the exception propagates.
Raise(exc) ==
    /\ pc' = "idle"
    /\ result' = [kind |-> "raise", value |-> exc]
    /\ elapsed' = 0
    /\ UNCHANGED <<cache, key, all_data, trail>>

\* session.get returned a 2xx response whose body parses to data: the finally
\* clause records the request time, the body is written to the cache when
\* caching is on, and the call goes on with it.
Fetched(data) ==
    /\ elapsed' = 0
    /\ cache' = IF use_cache THEN WriteCache(key, data) ELSE cache
    /\ GotPage(key, all_data, data, "fetched")

\* (variant of Retryable in which every error status is sent again)
RetryableAnyError(status) == status >= 400 \/ status = TransportError

\* The answers urllib3's Retry(status_forcelist=..., allowed_methods=["GET"])
\* sends a GET again for.
Retryable(status) == status \in STATUS_FORCELIST \cup {TransportError}

\* One HTTP attempt inside session.get, answered by status (or failing in
\* transport).  urllib3's Retry(total=n, status_forcelist=...) sends the GET
\* again while retries are left and the answer was a forcelist status or a
\* transport failure, and raises once they are used up; any other response is
\* returned, and raise_for_status raises for a 4xx/5xx.
HttpAttempt(status, body) ==
    /\ pc = "inflight"
    /\ attempts' = attempts + 1
    /\ lastStatus' = status
    /\ IF Retryable(status)
       THEN IF attempts < RetryTotal(client)
            THEN UNCHANGED <<pc, cache, elapsed, key, all_data, result,
                             called, sinceDone, trail>>
            ELSE /\ Raise(IF status = TransportError THEN "ConnectionError"
                           ELSE "RetryError")
                 /\ called' = TRUE /\ sinceDone' = 0
       ELSE IF status >= 400
            THEN Raise("HTTPError") /\ called' = TRUE /\ sinceDone' = 0
            ELSE IF body = BadJson
            THEN Raise("JSONDecodeError") /\ called' = TRUE /\ sinceDone' = 0
            ELSE Fetched(body) /\ called' = TRUE /\ sinceDone' = 0
    /\ UNCHANGED <<client, use_cache, ttl_arg, look>>

\* A tenth of a second passes.
Tick ==
    /\ cache' = Aged(cache, 1)
    /\ elapsed' = Later(elapsed, 1)
    /\ sinceDone' = Later(sinceDone, 1)
    /\ UNCHANGED <<client, use_cache, pc, key, ttl_arg, attempts,
                   lastStatus, all_data, result, look, called, trail>>

HttpInit ==
    /\ client \in Clients
    /\ use_cache \in BOOLEAN
    /\ cache = [k \in Keys |-> NoFile]
    /\ elapsed = RATE_LIMIT_DELAY(client)
    /\ pc = "idle"
    /\ key = "k1"
    /\ ttl_arg = NoTtl
    /\ attempts = 0
    /\ lastStatus = NoStatus
    /\ all_data = <<>>
    /\ result = [kind |-> "none", value |-> None]
    /\ look = [present |-> FALSE, expired |-> FALSE, gets |-> 0, seq |-> 0,
               key |-> "k1"]
    /\ trail = <<>>
    /\ called = FALSE
    /\ sinceDone = RATE_LIMIT_DELAY(client)

\* ------------------------------------------------------------------------
\* Strings, as sequences of characters
\* ------------------------------------------------------------------------
Range(f) == {f[i] : i \in DOMAIN f}

UpperChar(ch) ==
    CASE ch = "c" -> "C" [] ch = "u" -> "U" [] ch = "t" -> "T"
      [] ch = "w" -> "W" [] ch = "d" -> "D" [] OTHER -> ch

\* str.upper()
Upper(str) == [i \in DOMAIN str |-> UpperChar(str[i])]

\* str.replace(old, ""), old a single character
RECURSIVE Remove(_, _)
Remove(str, old) ==
    IF str = <<>> THEN <<>>
    ELSE IF Head(str) = old THEN Remove(Tail(str), old)
    ELSE <<Head(str)>> \o Remove(Tail(str), old)

\* str.strip()
RECURSIVE StripLeft(_)
StripLeft(str) ==
    IF str # <<>> /\ Head(str) = " " THEN StripLeft(Tail(str)) ELSE str
RECURSIVE StripRight(_)
StripRight(str) ==
    IF str # <<>> /\ str[Len(str)] = " "
    THEN StripRight(SubSeq(str, 1, Len(str) - 1)) ELSE str
Strip(str) == StripRight(StripLeft(str))

Digits == <<"0", "1", "2", "3", "4", "5", "6", "7", "8", "9">>
DigitValue(ch) == CHOOSE d \in 0..9 : Digits[d + 1] = ch
RECURSIVE Decimal(_)
Decimal(str) ==
    IF str = <<>> THEN 0
    ELSE 10 * Decimal(SubSeq(str, 1, Len(str) - 1)) + DigitValue(str[Len(str)])

\* int(str) of a string of decimal digits; anything else raises ValueError.
\* An optional value is a set with at most one element: {} is None.
ParseInt(str) ==
    IF str # <<>> /\ \A i \in DOMAIN str : str[i] \in Range(Digits)
    THEN {Decimal(str)} ELSE {}

\* ------------------------------------------------------------------------
\* The golf collector
\* ------------------------------------------------------------------------
Tournaments == <<"t1", "t2">>
YEAR == 2025
NoRaw == [exists |-> FALSE, rows |-> <<>>]

\* Rows of an upstream leaderboard: playerId ("" when the row has none),
\* position, status ("" when the row has none).  The other
\* fields of a row (names, total, strokes, isAmateur) are copied to the table
\* unchanged and are left out.
UpstreamRows ==
    {[playerId |-> pl, position |-> ps[1], status |-> ps[2]] :
        pl \in {"", "p1", "p2"},
        ps \in {<<<<"0">>, <<"a", "c", "t", "i", "v", "e">>>>,
                <<<<"1">>, <<"a", "c", "t", "i", "v", "e">>>>,
                <<<<"3">>, <<"a", "c", "t", "i", "v", "e">>>>,
                <<<<"T", "5">>, <<"a", "c", "t", "i", "v", "e">>>>,
                <<<<"C", "U", "T">>, <<"c", "u", "t">>>>,
                <<<<"W", "D">>, <<>>>>}}
\* The leaderboards an upstream may hold for a tournament.
Boards == {<<>>} \cup {<<r>> : r \in UpstreamRows}

\* parse_position
ParsePosition(pos_str) ==
    IF pos_str = <<>> THEN {}
    ELSE ParseInt(Strip(Remove(Upper(pos_str), "T")))

\* "1 if pos_num and pos_num <= n else 0"
TopN(pos_num, n) == IF \E x \in pos_num : x # 0 /\ x <= n THEN 1 ELSE 0

\* The result row collect_leaderboard builds from leaderboard row p.
ResultRow(t, y, p) ==
    [tourn_id |-> t, year |-> y, player_id |-> p.playerId,
     position |-> p.position,
     position_num |-> ParsePosition(p.position),
     made_cut |-> IF Upper(p.status) \in {<<"C", "U", "T">>, <<"W", "D">>,
                                          <<"D", "Q">>, <<"M", "D", "F">>}
                  THEN 0 ELSE 1,
     win |-> IF ParsePosition(p.position) = {1} THEN 1 ELSE 0,
     top_5 |-> TopN(ParsePosition(p.position), 5),
     top_10 |-> TopN(ParsePosition(p.position), 10),
     top_20 |-> TopN(ParsePosition(p.position), 20),
     top_25 |-> TopN(ParsePosition(p.position), 25)]

\* collect_leaderboard: the saved leaderboard when its file exists, else the
\* fetched one (ok) or nothing (the fetch raised and was logged).
LeaderboardRaw(raw, t, ok) ==
    IF raw[t].exists THEN raw[t].rows ELSE IF ok THEN board[t] ELSE <<>>
CollectLeaderboard(raw, t, y, ok) ==
    [i \in DOMAIN LeaderboardRaw(raw, t, ok) |->
        ResultRow(t, y, LeaderboardRaw(raw, t, ok)[i])]
\* The results directory after collect_leaderboard.
SavedRaw(raw, t, ok) ==
    IF ~raw[t].exists /\ ok
    THEN [raw EXCEPT ![t] = [exists |-> TRUE, rows |-> board[t]]] ELSE raw

\* load_results: a plain INSERT of every row, each under the next rowid.
LoadResults(table, results) ==
    table \o [i \in DOMAIN results |->
                 [id |-> Len(table) + i, row |-> results[i]]]

\* The loop of run_collector over the completed tournaments ts, in schedule
\* order: collect_leaderboard, then load_results.
RECURSIVE CollectAll(_, _, _, _)
CollectAll(ts, raw, table, ok) ==
    IF ts = <<>> THEN [raw |-> raw, table |-> table]
    ELSE CollectAll(Tail(ts), SavedRaw(raw, Head(ts), ok[Head(ts)]),
                    LoadResults(table,
                        CollectLeaderboard(raw, Head(ts), YEAR, ok[Head(ts)])),
                    ok)

\* Sums, minima and maxima of SQL aggregates.
RECURSIVE SumOf(_, _)
SumOf(rows, col) ==
    IF rows = <<>> THEN 0 ELSE rows[1].row[col] + SumOf(Tail(rows), col)
\* (variant of MinOf that gives 0 where no row has a value)
MinOfOrZero(S) ==
    IF S = {} THEN {0} ELSE {CHOOSE x \in S : \A y \in S : x <= y}
MinOf(S) == IF S = {} THEN {} ELSE {CHOOSE x \in S : \A y \in S : x <= y}
MaxOf(S) == IF S = {} THEN {} ELSE {CHOOSE x \in S : \A y \in S : x >= y}
\* (variant of Pct that cuts the digits after the first decimal off)
PctTruncated(n, d) == (1000 * n) \div d

\* ROUND(CAST(n AS REAL) / d * 100, 1), in tenths of a percent (d > 0).
Pct(n, d) == (2000 * n + d) \div (2 * d)

SelectSeq2(rows, pl, y) ==
    SelectSeq(rows, LAMBDA r : r.row.player_id = pl /\ r.row.year = y)

\* The row build_season_stats computes for one (player_id, year) group.
SeasonRow(rows, pl, y) ==
    [player_id |-> pl, year |-> y,
     events |-> Len(SelectSeq2(rows, pl, y)),
     cuts_made |-> SumOf(SelectSeq2(rows, pl, y), "made_cut"),
     wins |-> SumOf(SelectSeq2(rows, pl, y), "win"),
     top_5 |-> SumOf(SelectSeq2(rows, pl, y), "top_5"),
     top_10 |-> SumOf(SelectSeq2(rows, pl, y), "top_10"),
     top_20 |-> SumOf(SelectSeq2(rows, pl, y), "top_20"),
     top_25 |-> SumOf(SelectSeq2(rows, pl, y), "top_25"),
     best_finish |-> MinOf(UNION {r.row.position_num :
                                    r \in Range(SelectSeq2(rows, pl, y))}),
     worst_finish |-> MaxOf(UNION {r.row.position_num :
                                    r \in Range(SelectSeq2(rows, pl, y))}),
     cut_pct |-> Pct(SumOf(SelectSeq2(rows, pl, y), "made_cut"),
                     Len(SelectSeq2(rows, pl, y))),
     win_pct |-> Pct(SumOf(SelectSeq2(rows, pl, y), "win"),
                     Len(SelectSeq2(rows, pl, y)))]

\* The (player_id, year) groups of "WHERE player_id != '' GROUP BY player_id,
\* year", in the order of their first row.
RECURSIVE Groups(_, _)
Groups(rows, seen) ==
    IF rows = <<>> THEN <<>>
    ELSE IF rows[1].row.player_id = ""
            \/ <<rows[1].row.player_id, rows[1].row.year>> \in seen
    THEN Groups(Tail(rows), seen)
    ELSE <<<<rows[1].row.player_id, rows[1].row.year>>>>
         \o Groups(Tail(rows),
                   seen \cup {<<rows[1].row.player_id, rows[1].row.year>>})

\* (variant of BuildSeasonStats that does not delete the rows of the build
\* before)
BuildSeasonStatsKeepOld(rows, old) ==
    old \o [i \in DOMAIN Groups(rows, {}) |->
              [id |-> (IF old = <<>> THEN 0 ELSE old[Len(old)].id) + i,
               row |-> SeasonRow(rows, Groups(rows, {})[i][1],
                                 Groups(rows, {})[i][2])]]

\* build_season_stats: DELETE FROM golf_player_season_stats, then one row
\* per group; old holds the rows deleted, whose rowids are not used again.
BuildSeasonStats(rows, old) ==
    [i \in DOMAIN Groups(rows, {}) |->
        [id |-> (IF old = <<>> THEN 0 ELSE old[Len(old)].id) + i,
         row |-> SeasonRow(rows, Groups(rows, {})[i][1],
                           Groups(rows, {})[i][2])]]

\* A table's rows on every column except the autoincrement id, as a bag.
NoId(table) ==
    [r \in {x.row : x \in Range(table)} |->
        Cardinality({i \in DOMAIN table : table[i].row = r})]

\* run_collector(years=[YEAR]).  sched_ok: the schedule request succeeds (it
\* is not guarded: a failure ends the run before anything is stored); ok[t]:
\* the leaderboard request for t succeeds.
GolfRun(sched_ok, ok) ==
    /\ program = "golf"
    /\ runs < MaxRuns
    /\ runs' = runs + 1
    /\ IF ~sched_ok
       THEN UNCHANGED golfVars
       ELSE LET done == CollectAll(SelectSeq(Tournaments,
                                       LAMBDA t : t \in completed),
                                   raw_results, golf_results, ok)
            IN /\ golf_tournaments' =
                     golf_tournaments \cup {<<t, YEAR>> : t \in Range(Tournaments)}
               /\ raw_results' = done.raw
               /\ golf_results' = done.table
               /\ golf_player_season_stats' =
                     BuildSeasonStats(done.table, golf_player_season_stats)
               /\ golf_fresh' = TRUE
               /\ UNCHANGED <<board, completed>>
    /\ UNCHANGED <<program>>

\* build_season_stats(conn), called on its own.
BuildOnly ==
    /\ program = "golf"
    /\ runs < MaxRuns
    /\ runs' = runs + 1
    /\ golf_player_season_stats' =
          BuildSeasonStats(golf_results, golf_player_season_stats)
    /\ UNCHANGED <<program, board, completed, raw_results, golf_tournaments,
                   golf_results, golf_fresh>>

\* Upstream: a tournament of the schedule ends.
CompleteTournament(t) ==
    /\ program = "golf"
    /\ t \notin completed
    /\ completed' = completed \cup {t}
    /\ golf_fresh' = FALSE
    /\ UNCHANGED <<program, runs, board, raw_results, golf_tournaments,
                   golf_results, golf_player_season_stats>>

GolfInit ==
    /\ board \in [Range(Tournaments) -> Boards]
    /\ completed \in {{}, {"t1"}}
    /\ raw_results = [t \in Range(Tournaments) |-> NoRaw]
    /\ golf_tournaments = {}
    /\ golf_results = <<>>
    /\ golf_player_season_stats = <<>>
    /\ golf_fresh = FALSE

GolfIdle ==
    /\ board = [t \in Range(Tournaments) |-> <<>>]
    /\ completed = {}
    /\ raw_results = [t \in Range(Tournaments) |-> NoRaw]
    /\ golf_tournaments = {}
    /\ golf_results = <<>>
    /\ golf_player_season_stats = <<>>
    /\ golf_fresh = FALSE

\* ------------------------------------------------------------------------
\* A run, step by step: which steps a failing database call lets run
\* ------------------------------------------------------------------------
\* The steps of a run in the order of the code.  kind: "fetch" (a request to
\* upstream or a read of a raw file) or "load" (writes to the database);
\* try: 0 when no try block of the run encloses the step, else the number of
\* the "try ... except Exception: logger.warning" block it stands in;
\* src: for a load that returns at once when it is given nothing, the fetch
\* that gives it its rows.
Step(kind, name, try, src) ==
    [kind |-> kind, name |-> name, try |-> try, src |-> src]
RunSteps(prog) ==
    CASE prog = "nfl" ->
           <<Step("fetch", "get_teams", 0, ""),
             Step("load", "load_teams", 0, ""),
             Step("fetch", "get_standings", 1, ""),
             Step("load", "load_standings", 1, ""),
             Step("fetch", "get_season_stats", 2, ""),
             Step("load", "load_player_stats", 2, ""),
             Step("fetch", "get_season_stats_post", 3, ""),
             Step("load", "load_player_stats_post", 3, "")>>
      [] prog = "golf" ->
           <<Step("fetch", "collect_schedule", 0, ""),
             Step("load", "load_tournaments", 0, ""),
             Step("fetch", "get_completed_tournaments", 0, ""),
             Step("fetch", "collect_leaderboard_t1", 4, ""),
             Step("load", "load_results_t1", 0, "collect_leaderboard_t1"),
             Step("fetch", "collect_leaderboard_t2", 5, ""),
             Step("load", "load_results_t2", 0, "collect_leaderboard_t2"),
             Step("load", "build_season_stats", 0, "")>>
      [] prog = "nhl" ->
           <<Step("load", "create_schema", 0, ""),
             Step("load", "load_teams", 0, ""),
             Step("load", "load_players", 0, ""),
             Step("load", "load_skater_stats", 0, ""),
             Step("load", "load_goalie_stats", 0, ""),
             Step("load", "load_standings", 0, "")>>
LoadSteps(prog) ==
    {RunSteps(prog)[i].name :
        i \in {j \in DOMAIN RunSteps(prog) : RunSteps(prog)[j].kind = "load"}}

\* The steps not yet passed: all of them at the start, and after a step its
\* successors, or, when the step failed inside a try block, the steps after
\* that block.
RECURSIVE SkipTry(_, _)
SkipTry(rest, try) ==
    IF rest = <<>> \/ rest[1].try # try THEN rest
    ELSE SkipTry(Tail(rest), try)
RECURSIVE Remaining(_, _)
Remaining(rest, done) ==
    IF done = <<>> THEN rest
    ELSE IF done[1].outcome = "ok" \/ done[1].outcome = "nothing"
    THEN Remaining(Tail(rest), Tail(done))
    ELSE Remaining(SkipTry(Tail(rest), rest[1].try), Tail(done))

\* An exception raised by step is caught by a try block of the run.
Caught(step) == step.try # 0

\* How a step ends.  fetch_ok: the request succeeds.
Outcome(step, fetch_ok) ==
    IF step.kind = "fetch"
    THEN IF fetch_ok THEN "ok" ELSE "fetch_error"
    ELSE IF step.src # "" /\ step.src \in pe_logged THEN "nothing"
    ELSE IF step.name = pe_fail THEN "persistence_error"
    ELSE "ok"

\* The next step of the run.
RunStep(fetch_ok) ==
    /\ pe_state = "running"
    /\ LET rest == Remaining(RunSteps(program), pe_steps)
       IN IF rest = <<>>
          THEN /\ pe_state' = "returned"
               /\ UNCHANGED <<pe_steps, pe_logged>>
          ELSE LET step == rest[1]
                   how == Outcome(step, fetch_ok)
               IN /\ pe_steps' = Append(pe_steps,
                                        [name |-> step.name, outcome |-> how])
                  /\ IF how \in {"ok", "nothing"}
                     THEN UNCHANGED <<pe_state, pe_logged>>
                     ELSE IF Caught(step)
                     THEN /\ pe_logged' = pe_logged \cup {step.name}
                          /\ UNCHANGED pe_state
                     ELSE /\ pe_state' = "raised"
                          /\ UNCHANGED pe_logged
    /\ UNCHANGED <<pe_fail>>

PersistInit ==
    /\ pe_state = "running"
    /\ pe_fail \in LoadSteps(program) \cup {"none"}
    /\ pe_steps = <<>>
    /\ pe_logged = {}

PersistIdle ==
    /\ pe_state = "off"
    /\ pe_fail = "none"
    /\ pe_steps = <<>>
    /\ pe_logged = {}

\* ------------------------------------------------------------------------
\* Raw snapshot files
\* ------------------------------------------------------------------------
Versions == {"v1", "v2"}
\* The snapshots of a program, in the order its run writes them: one team's
\* roster and schedule and one player's game log stand for all of them.
Resources(prog) ==
    IF prog = "golf" THEN <<"leaderboard">>
    ELSE <<"standings", "roster", "schedule", "game_log">>
AllResources == {"leaderboard", "standings", "roster", "schedule", "game_log"}

\* What a run does with resource r.  ok: the request for r succeeds;
\* files, did: the files and the doings of the run so far.
\*   standings: collect_standings, no try around it (a failure ends the run)
\*   roster, schedule: fetched and saved inside try / except
\*   game_log: only for the players of a roster fetched in this run, and
\*     not when the file exists ("continue  # already collected")
\*   leaderboard: read back when the file exists, else fetched and saved
Did(r, ok, files, did) ==
    CASE r \in {"standings", "roster", "schedule"} ->
           IF ok THEN "saved" ELSE "failed"
      [] r = "game_log" ->
           IF did["roster"] # "saved" THEN "unreached"
           ELSE IF files[r] # "none" THEN "kept"
           ELSE IF ok THEN "saved" ELSE "failed"
      [] r = "leaderboard" ->
           IF files[r] # "none" THEN "kept"
           ELSE IF ok THEN "saved" ELSE "failed"

RECURSIVE CollectSnapshots(_, _, _, _)
CollectSnapshots(rs, ok, files, did) ==
    IF rs = <<>> THEN [files |-> files, did |-> did]
    ELSE LET d == Did(rs[1], ok[rs[1]], files, did)
         IN IF rs[1] = "standings" /\ d = "failed"
            THEN [files |-> files, did |-> [did EXCEPT ![rs[1]] = d]]
            ELSE CollectSnapshots(
                     Tail(rs), ok,
                     IF d = "saved"
                     THEN [files EXCEPT ![rs[1]] = sn_upstream[rs[1]]]
                     ELSE files,
                     [did EXCEPT ![rs[1]] = d])

\* One run of the collector of the program.
SnapshotRun(ok) ==
    /\ program \in {"golf", "nhl"}
    /\ runs < MaxRuns
    /\ runs' = runs + 1
    /\ LET out == CollectSnapshots(Resources(program), ok, sn_files,
                                   [r \in AllResources |-> "unreached"])
       IN sn_files' = out.files /\ sn_run' = out.did
    /\ UNCHANGED <<program, sn_upstream>>

\* Upstream: the data of a resource changes.
SnapshotUpstream(r, v) ==
    /\ r \in Range(Resources(program))
    /\ sn_upstream[r] # v
    /\ sn_upstream' = [sn_upstream EXCEPT ![r] = v]
    /\ UNCHANGED <<program, runs, sn_files, sn_run>>

SnapshotInit ==
    /\ sn_upstream = [r \in AllResources |-> "v1"]
    /\ sn_files = [r \in AllResources |-> "none"]
    /\ sn_run = [r \in AllResources |-> "unreached"]

SnapshotIdle == SnapshotInit

\* ------------------------------------------------------------------------
\* A killed golf run and its restart
\* ------------------------------------------------------------------------
\* The completed tournaments in schedule order.
CompletedSeq == SelectSeq(Tournaments, LAMBDA t : t \in completed)
AllOk == [t \in Range(Tournaments) |-> TRUE]

\* run_collector killed from outside after the first n completed tournaments
\* were collected and loaded (load_results commits each), every request
\* succeeding.  torn: the kill came while save_json was writing the raw file
\* of the next tournament (path.write_text is not atomic).  The season
\* statistics are not built.
GolfRunKilled(n, torn) ==
    /\ program = "golf"
    /\ runs = 0 /\ ~rs_killed
    /\ n \in 0..Len(CompletedSeq)
    /\ torn => n < Len(CompletedSeq)
    /\ runs' = runs + 1
    /\ LET done == CollectAll(SubSeq(CompletedSeq, 1, n), raw_results,
                              golf_results, AllOk)
       IN /\ raw_results' = done.raw
          /\ golf_results' = done.table
    /\ golf_tournaments' =
          golf_tournaments \cup {<<t, YEAR>> : t \in Range(Tournaments)}
    /\ rs_torn' = IF torn THEN {CompletedSeq[n + 1]} ELSE {}
    /\ rs_killed' = TRUE
    /\ UNCHANGED <<program, board, completed, golf_player_season_stats,
                   golf_fresh, rs_raised>>

\* The tournaments a run gets through: up to the first whose raw file is
\* half-written, where load_json raises json.JSONDecodeError outside any try.
RECURSIVE UntilTorn(_)
UntilTorn(ts) ==
    IF ts = <<>> \/ ts[1] \in rs_torn THEN <<>>
    ELSE <<ts[1]>> \o UntilTorn(Tail(ts))

\* run_collector started again after the kill, every request succeeding.
GolfRestart ==
    /\ program = "golf"
    /\ rs_killed
    /\ runs < MaxRuns
    /\ runs' = runs + 1
    /\ LET done == CollectAll(UntilTorn(CompletedSeq), raw_results,
                              golf_results, AllOk)
           raised == UntilTorn(CompletedSeq) # CompletedSeq
       IN /\ raw_results' = done.raw
          /\ golf_results' = done.table
          /\ rs_raised' = raised
          /\ golf_player_season_stats' =
                IF raised THEN golf_player_season_stats
                ELSE BuildSeasonStats(done.table, golf_player_season_stats)
    /\ rs_killed' = FALSE
    /\ UNCHANGED <<program, board, completed, golf_tournaments, golf_fresh,
                   rs_torn>>

RestartInit ==
    /\ rs_torn = {}
    /\ rs_killed = FALSE
    /\ rs_raised = FALSE

\* ------------------------------------------------------------------------
\* The exit status of a collector invocation
\* ------------------------------------------------------------------------
\* The resources of an invocation, the first being the one every other step
\* starts from (NFL teams, NHL standings, golf schedule); its request stands
\* in no try block.
ExResources(prog) ==
    CASE prog = "nfl" -> <<"teams", "standings", "regular", "post">>
      [] prog = "nhl" -> <<"standings", "roster", "skaters", "goalies",
                           "schedule", "game_log">>
      [] prog = "golf" -> <<"schedule", "leaderboard_t1", "leaderboard_t2">>
ExAll ==
    {"teams", "standings", "regular", "post", "roster", "skaters", "goalies",
     "schedule", "game_log", "leaderboard_t1", "leaderboard_t2"}
Outcomes == {"data", "empty", "failed"}

\* The invocation gets to the request for r: the first request raised
\* nothing, and r is not one of the per-team or per-tournament requests of a
\* run whose team list or schedule is empty, nor a game log of a roster that
\* was not fetched.
Reached(prog, r, out) ==
    /\ r \in Range(ExResources(prog))
    /\ \/ r = ExResources(prog)[1]
       \/ /\ out[ExResources(prog)[1]] # "failed"
          /\ (prog = "nhl" /\ r \in {"roster", "schedule"})
                => out["standings"] = "data"
          /\ (prog = "nhl" /\ r = "game_log")
                => out["standings"] = "data" /\ out["roster"] = "data"
          /\ (prog = "golf" /\ r # "schedule") => out["schedule"] = "data"

\* The exit status: no __main__ block calls sys.exit, so it is 1 when an
\* exception leaves run_collector and 0 when run_collector returns.
ExitStatus(prog, out) == IF out[ExResources(prog)[1]] = "failed" THEN 1 ELSE 0

\* python <collector>.py
Invoke(out) ==
    /\ program \in {"golf", "nfl", "nhl"}
    /\ ex_status = -1
    /\ ex_outcome' = out
    /\ ex_status' = ExitStatus(program, out)
    /\ ex_collected' =
          {r \in ExAll : Reached(program, r, out) /\ out[r] = "data"}
    /\ ex_logged' =
          {r \in ExAll : /\ Reached(program, r, out) /\ out[r] = "failed"
                         /\ r # ExResources(program)[1]}
    /\ UNCHANGED <<program, runs>>

ExitInit ==
    /\ ex_outcome = [r \in ExAll |-> "empty"]
    /\ ex_status = -1
    /\ ex_collected = {}
    /\ ex_logged = {}

RebuildInit == rb_last = "none" /\ rb_before = 0

\* ------------------------------------------------------------------------
\* The rates of a skater record
\* ------------------------------------------------------------------------
MaxCount == 3
Counts == 0..MaxCount

\* round(n / d * scale, k) as a whole number of 10^-k units, scale10k being
\* scale * 10^k.  No quotient of the counts modelled lies halfway between
\* two such numbers, so the rounding mode does not matter.
RoundDiv(n, d, scale10k) == (2 * scale10k * n + d) \div (2 * d)

\* Python's `a or b` on numbers: 0 and None are falsy.
OrElse(a, b) == IF a = {} \/ a = {0} THEN b ELSE a

\* collect_skater_stats: the entry built from one record of a page.
\* shooting_pct in tenths of a percent, the per-game rates in thousandths.
SkaterEntry(p) ==
    [goals |-> p.goals, points |-> p.points, shots |-> p.shots,
     games_played |-> p.gamesPlayed,
     shooting_pct |-> IF p.shots > 0 THEN RoundDiv(p.goals, p.shots, 1000)
                      ELSE 0,
     points_per_game |-> IF p.gamesPlayed > 0
                         THEN RoundDiv(p.points, p.gamesPlayed, 1000) ELSE 0,
     goals_per_game |-> IF p.gamesPlayed > 0
                        THEN RoundDiv(p.goals, p.gamesPlayed, 1000) ELSE 0]

\* load_skater_stats: the row built from one entry of the file; {} is NULL.
SkaterRow(e) ==
    [goals |-> e.goals, points |-> e.points, shots |-> e.shots,
     games_played |-> e.games_played,
     points_per_game |->
         OrElse({e.points_per_game},
                IF e.games_played > 0
                THEN {RoundDiv(e.points, e.games_played, 1000)} ELSE {}),
     goals_per_game |->
         OrElse({e.goals_per_game},
                IF e.games_played > 0
                THEN {RoundDiv(e.goals, e.games_played, 1000)} ELSE {}),
     shooting_pct |->
         OrElse({e.shooting_pct},
                IF e.shots > 0
                THEN {RoundDiv(e.goals, e.shots, 1000)} ELSE {})]

\* data_collector.py: the record is fetched and saved.
CollectSkater ==
    /\ sk_json = {}
    /\ sk_json' = {SkaterEntry(sk_upstream)}
    /\ UNCHANGED <<sk_upstream, sk_stored>>

\* load_database.py: the saved record is loaded.
LoadSkater ==
    /\ sk_json # {} /\ sk_stored = {}
    /\ sk_stored' = {SkaterRow(e) : e \in sk_json}
    /\ UNCHANGED <<sk_upstream, sk_json>>

SkaterInit ==
    /\ sk_upstream \in [goals : Counts, points : Counts, shots : Counts,
                         gamesPlayed : Counts]
    /\ sk_json = {}
    /\ sk_stored = {}

SkaterIdle ==
    /\ sk_upstream = [goals |-> 0, points |-> 0, shots |-> 0, gamesPlayed |-> 0]
    /\ sk_json = {}
    /\ sk_stored = {}

\* ------------------------------------------------------------------------
\* get_teams and get_standings of the NHL client
\* ------------------------------------------------------------------------
STANDINGS_CACHE_TTL == 3000
HISTORICAL_CACHE_TTL == 6048000
\* In this part time passes in steps of TickLen tenths of a second, and ages
\* saturate at StAgeCap, which lies above STANDINGS_CACHE_TTL and below
\* HISTORICAL_CACHE_TTL.
TickLen == 1500
StAgeCap == 3 * TickLen
Calls == {"get_teams", "get_standings"}

\* (variant of CallTtl in which get_standings passes the TTL of get_teams)
CallTtlHistorical(call) == HISTORICAL_CACHE_TTL

\* The ttl a call passes to _get; get_standings is called without a date.
CallTtl(call) ==
    IF call = "get_teams" THEN HISTORICAL_CACHE_TTL ELSE STANDINGS_CACHE_TTL

\* _read_cache(key, ttl) on the file of /standings/now
ReadStandings(file, ttl) ==
    IF file = NoFile THEN None
    ELSE IF file.age > ttl THEN None
    ELSE file.payload

\* get_teams() / get_standings(): _get(url, ttl=CallTtl(call)), with caching
\* on. ok: the request succeeds. The sleep of _rate_limit, at most 0.4 s,
\* is shorter than a step of time.
GetStandings(call, ok) ==
    IF ReadStandings(st_file, CallTtl(call)) # None
    THEN /\ st_result' = [call |-> call, kind |-> "hit", age |-> st_got.age]
         /\ UNCHANGED <<st_upstream, st_file, st_got>>
    ELSE IF ok
    THEN /\ st_file' = [payload |-> st_upstream, age |-> 0]
         /\ st_got' = [by |-> call, age |-> 0]
         /\ st_result' = [call |-> call, kind |-> "fetched", age |-> 0]
         /\ UNCHANGED st_upstream
    ELSE /\ st_result' = [call |-> call, kind |-> "raise", age |-> -1]
         /\ UNCHANGED <<st_upstream, st_file, st_got>>

\* TickLen tenths of a second pass.
StandingsTick ==
    /\ st_file # NoFile
    /\ st_file.age < StAgeCap
    /\ st_file' = [st_file EXCEPT !.age = Min(StAgeCap, @ + TickLen)]
    /\ st_got' = [st_got EXCEPT !.age = Min(StAgeCap, @ + TickLen)]
    /\ UNCHANGED <<st_upstream, st_result>>

\* A game ends: the standings upstream change.
StandingsChange(v) ==
    /\ st_upstream # v
    /\ st_upstream' = v
    /\ UNCHANGED <<st_file, st_got, st_result>>

StandingsInit ==
    /\ st_upstream = "v1"
    /\ st_file = NoFile
    /\ st_got = [by |-> "none", age |-> 0]
    /\ st_result = [call |-> "none", kind |-> "none", age |-> -1]

\* The pages of an endpoint that ends: every page is an object, and the
\* page a cursor leads to holds no next cursor or no records.
Feeds ==
    {f \in [Keys -> {"EmptyObj", "Data", "More", "MoreEmpty"}] :
        f["k2"] \in {"EmptyObj", "Data", "MoreEmpty"}}
FeedIdle == feed = [k \in Keys |-> "EmptyObj"]

\* ------------------------------------------------------------------------
\* build_season_stats, statement by statement
\* ------------------------------------------------------------------------
BuildPhases == {"deleted", "inserted", "failed"}

\* (variant of Delete on a connection in autocommit mode: the statement is
\* committed at once)
DeleteAutocommit(table) == [committed |-> <<>>, pending |-> <<>>]

\* conn.execute("DELETE FROM golf_player_season_stats") on the connection of
\* get_db, opened with the default isolation level: the statement begins a
\* transaction, and the table as committed stays as it is.
Delete(table) == [committed |-> table, pending |-> <<>>]

\* run_collector up to the call of build_season_stats: every load commits.
GolfLoad(sched_ok, ok) ==
    /\ program = "golf"
    /\ tx_phase = "idle"
    /\ runs < MaxRuns
    /\ runs' = runs + 1
    /\ IF ~sched_ok
       THEN UNCHANGED <<golfVars, tx_phase, tx_last>>
       ELSE LET done == CollectAll(SelectSeq(Tournaments,
                                       LAMBDA t : t \in completed),
                                   raw_results, golf_results, ok)
            IN /\ golf_tournaments' =
                     golf_tournaments \cup {<<t, YEAR>> : t \in Range(Tournaments)}
               /\ raw_results' = done.raw
               /\ golf_results' = done.table
               /\ golf_fresh' = FALSE
               /\ tx_phase' = "loaded"
               /\ tx_last' = "none"
               /\ UNCHANGED <<board, completed, golf_player_season_stats>>
    /\ UNCHANGED <<program, tx_pending, tx_old, tx_seen>>

\* build_season_stats: the DELETE
TxDelete ==
    /\ tx_phase = "loaded"
    /\ tx_phase' = "deleted"
    /\ tx_old' = golf_player_season_stats
    /\ golf_player_season_stats' = Delete(golf_player_season_stats).committed
    /\ tx_pending' = Delete(golf_player_season_stats).pending
    /\ UNCHANGED <<program, runs, board, completed, raw_results,
                   golf_tournaments, golf_results, golf_fresh, tx_last,
                   tx_seen>>

\* build_season_stats: the INSERT ... SELECT; ok: the statement succeeds.
TxInsert(ok) ==
    /\ tx_phase = "deleted"
    /\ tx_phase' = IF ok THEN "inserted" ELSE "failed"
    /\ tx_pending' = IF ok THEN BuildSeasonStats(golf_results, tx_old)
                     ELSE tx_pending
    /\ UNCHANGED <<program, runs, golfVars, tx_old, tx_last, tx_seen>>

\* build_season_stats: conn.commit()
TxCommit ==
    /\ tx_phase = "inserted"
    /\ tx_phase' = "idle"
    /\ golf_player_season_stats' = tx_pending
    /\ tx_pending' = <<>>
    /\ tx_last' = "committed"
    /\ golf_fresh' = TRUE
    /\ UNCHANGED <<program, runs, board, completed, raw_results,
                   golf_tournaments, golf_results, tx_old, tx_seen>>

\* The process ends with the transaction open, by the exception of a failed
\* INSERT, which nothing catches, or by being killed: the transaction is
\* rolled back.
TxAbort ==
    /\ tx_phase \in BuildPhases
    /\ tx_phase' = "idle"
    /\ tx_pending' = <<>>
    /\ tx_last' = "aborted"
    /\ UNCHANGED <<program, runs, golfVars, tx_old, tx_seen>>

\* Another connection reads golf_player_season_stats while the build is
\* under way.
TxRead ==
    /\ tx_phase \in BuildPhases
    /\ tx_seen' = [phase |-> tx_phase, rows |-> golf_player_season_stats,
                   old |-> tx_old]
    /\ UNCHANGED <<program, runs, golfVars, tx_phase, tx_pending, tx_old,
                   tx_last>>

TxnInit ==
    /\ tx_phase = "idle"
    /\ tx_pending = <<>>
    /\ tx_old = <<>>
    /\ tx_last = "none"
    /\ tx_seen = [phase |-> "idle", rows |-> <<>>, old |-> <<>>]

LaterIdle == SkaterIdle /\ StandingsInit /\ FeedIdle /\ TxnInit

ExtraIdle ==
    /\ PersistIdle /\ SnapshotIdle /\ RestartInit /\ ExitInit /\ RebuildInit
    /\ LaterIdle

\* ------------------------------------------------------------------------
\* The NFL collector
\* ------------------------------------------------------------------------
SEASON == 2024
TeamIds == {1, 2}
EmptyTable == [rows |-> <<>>, seq |-> 0]

\* season_stats records: the id of the player object (none: the record has
\* no player, or its player has no id) and one of the statistics.
StatRecords == [player_id : {{}, {7}}, games_played : {1, 2}]
StatPayloads == {<<>>} \cup {<<r>> : r \in StatRecords}
\* standings records
StandingRecords == [team_id : {{1}}, wins : {1}]
StandingPayloads == {<<>>} \cup {<<r>> : r \in StandingRecords}

\* SQL UNIQUE: two rows conflict when they agree on every column of the
\* constraint and none of these is NULL.
StatsConflict(a, b) ==
    /\ a.season = b.season /\ a.postseason = b.postseason
    /\ a.player_id # {} /\ a.player_id = b.player_id
StandingsConflict(a, b) ==
    a.season = b.season /\ a.team_id # {} /\ a.team_id = b.team_id

\* INSERT OR REPLACE of one row: the rows it conflicts with are deleted and
\* the row is stored under the next autoincrement id.
ReplaceStat(table, row) ==
    [rows |-> SelectSeq(table.rows, LAMBDA r : ~StatsConflict(r.row, row))
              \o <<[id |-> table.seq + 1, row |-> row]>>,
     seq |-> table.seq + 1]
ReplaceStanding(table, row) ==
    [rows |-> SelectSeq(table.rows, LAMBDA r : ~StandingsConflict(r.row, row))
              \o <<[id |-> table.seq + 1, row |-> row]>>,
     seq |-> table.seq + 1]

\* load_player_stats
RECURSIVE load_player_stats(_, _, _, _)
load_player_stats(table, stats, season, postseason) ==
    IF stats = <<>> THEN table
    ELSE load_player_stats(
             ReplaceStat(table, [season |-> season, postseason |-> postseason,
                                 player_id |-> stats[1].player_id,
                                 games_played |-> stats[1].games_played]),
             Tail(stats), season, postseason)

\* load_standings
RECURSIVE load_standings(_, _, _)
load_standings(table, data, season) ==
    IF data = <<>> THEN table
    ELSE load_standings(
             ReplaceStanding(table, [season |-> season,
                                     team_id |-> data[1].team_id,
                                     wins |-> data[1].wins]),
             Tail(data), season)

\* History: the keys a load carried take that load's values.
RECURSIVE Latest(_, _, _, _)
Latest(latest, stats, season, postseason) ==
    IF stats = <<>> THEN latest
    ELSE Latest({r \in latest : ~(/\ r.season = season
                                   /\ r.postseason = postseason
                                   /\ r.player_id = stats[1].player_id)}
                \cup {[season |-> season, postseason |-> postseason,
                       player_id |-> stats[1].player_id,
                       games_played |-> stats[1].games_played]},
                Tail(stats), season, postseason)

\* (variant of GetDb that opens the store as it is, whatever the flag)
GetDbKeep(rebuild, table) == table

\* get_db
GetDb(rebuild, table) == IF rebuild THEN EmptyTable ELSE table

\* run_collector(seasons=[SEASON], rebuild).  teams_ok: the teams request
\* succeeds (it is not guarded: a failure ends the run after get_db);
\* st: <<TRUE, the standings returned>>, or <<FALSE, _>> when that request
\* raises; reg_ok, post_ok: the regular season and postseason requests
\* succeed.
NflRun(rebuild, teams_ok, st, reg_ok, post_ok) ==
    /\ program = "nfl"
    /\ runs < MaxRuns
    /\ runs' = runs + 1
    /\ nfl_teams' = IF teams_ok THEN TeamIds
                    ELSE IF rebuild THEN {} ELSE nfl_teams
    /\ nfl_standings' =
          IF teams_ok /\ st[1]
          THEN load_standings(GetDb(rebuild, nfl_standings), st[2], SEASON)
          ELSE GetDb(rebuild, nfl_standings)
    /\ LET regular == IF teams_ok /\ reg_ok THEN nfl_upstream[0] ELSE <<>>
           post == IF teams_ok /\ post_ok THEN nfl_upstream[1] ELSE <<>>
       IN /\ nfl_player_stats' =
                load_player_stats(
                    load_player_stats(GetDb(rebuild, nfl_player_stats),
                                      regular, SEASON, 0),
                    post, SEASON, 1)
          /\ nfl_latest' =
                Latest(Latest(IF rebuild THEN {} ELSE nfl_latest,
                              regular, SEASON, 0),
                       post, SEASON, 1)
    /\ nfl_fresh' = (~rebuild /\ teams_ok /\ reg_ok /\ post_ok)
    /\ UNCHANGED <<program, nfl_upstream>>

\* Upstream: the statistics of the season change.
NflUpstreamChange(postseason, stats) ==
    /\ program = "nfl"
    /\ nfl_upstream[postseason] # stats
    /\ nfl_upstream' = [nfl_upstream EXCEPT ![postseason] = stats]
    /\ nfl_fresh' = FALSE
    /\ UNCHANGED <<program, runs, nfl_teams, nfl_standings, nfl_player_stats,
                   nfl_latest>>

NflInit ==
    /\ nfl_upstream \in [{0, 1} -> StatPayloads]
    /\ nfl_teams = {}
    /\ nfl_standings = EmptyTable
    /\ nfl_player_stats = EmptyTable
    /\ nfl_latest = {}
    /\ nfl_fresh = FALSE

NflIdle ==
    /\ nfl_upstream = [b \in {0, 1} |-> <<>>]
    /\ nfl_teams = {}
    /\ nfl_standings = EmptyTable
    /\ nfl_player_stats = EmptyTable
    /\ nfl_latest = {}
    /\ nfl_fresh = FALSE

\* ------------------------------------------------------------------------
\* The NHL database loader
\* ------------------------------------------------------------------------
SeasonId == "20242025"
Missing == [exists |-> FALSE, data |-> <<>>]
File(data) == [exists |-> TRUE, data |-> data]

\* Records of the raw statistics files, as the collector saves them.
SkaterRecords == [player_id : {{}, {8}}, goals : {0, 1}]
GoalieRecords == [player_id : {{}, {30}}, wins : {{}, {1}}]
\* teams.json and standings_<SeasonId>.json
TeamsJson == <<[id |-> 1, abbrev |-> "BOS"]>>
StandingsJson == <<[teamAbbrev |-> "BOS", points |-> 2]>>
\* Contents of all_players.json
PlayerLists ==
    {<<>>, <<[id |-> 8, team_abbrev |-> "BOS"]>>,
     <<[id |-> 8, team_abbrev |-> "TOR"]>>}

\* load_json followed by "if not data": a missing or empty file loads nothing.
LoadJson(file) == IF file.exists THEN file.data ELSE <<>>

\* executemany of an INSERT into a table whose only key is the autoincrement
\* id: INSERT OR REPLACE finds nothing to replace and appends every row.
InsertAll(table, rows) ==
    [rows |-> table.rows \o [i \in DOMAIN rows |->
                                [id |-> table.seq + i, row |-> rows[i]]],
     seq |-> table.seq + Len(rows)]

\* player_id INTEGER NOT NULL: a row without it raises IntegrityError and the
\* batch, not yet committed, is lost when the connection is closed.
Violates(rows) == \E i \in DOMAIN rows : rows[i].player_id = {}

SkaterRows(data) ==
    [i \in DOMAIN data |->
        [player_id |-> data[i].player_id, season |-> SeasonId,
         goals |-> data[i].goals]]
GoalieRows(data) ==
    [i \in DOMAIN data |->
        [player_id |-> data[i].player_id, season |-> SeasonId,
         wins |-> data[i].wins]]
StandingRows(data) ==
    [i \in DOMAIN data |->
        [season |-> SeasonId, team_abbrev |-> data[i].teamAbbrev,
         points |-> data[i].points]]

\* load_players: INSERT OR REPLACE on the primary key id.
RECURSIVE LoadPlayers(_, _)
LoadPlayers(table, data) ==
    IF data = <<>> THEN table
    ELSE LoadPlayers({r \in table : r.id # data[1].id} \cup {data[1]},
                     Tail(data))

\* create_schema
CreateSchema(rebuild, table, empty) == IF rebuild THEN empty ELSE table

\* run_loader(rebuild)
RunLoader(rebuild) ==
    /\ program = "nhl"
    /\ runs < MaxRuns
    /\ runs' = runs + 1
    /\ teams' = CreateSchema(rebuild, teams, {})
                  \cup {LoadJson(File(TeamsJson))[i].id :
                            i \in DOMAIN LoadJson(File(TeamsJson))}
    /\ players' = LoadPlayers(CreateSchema(rebuild, players, {}),
                              LoadJson(players_json))
    /\ LET skaters == SkaterRows(LoadJson(skater_file))
           goalies == GoalieRows(LoadJson(goalie_file))
       IN /\ skater_stats' =
                IF Violates(skaters)
                THEN CreateSchema(rebuild, skater_stats, EmptyTable)
                ELSE InsertAll(CreateSchema(rebuild, skater_stats, EmptyTable),
                               skaters)
          /\ goalie_stats' =
                IF Violates(skaters) \/ Violates(goalies)
                THEN CreateSchema(rebuild, goalie_stats, EmptyTable)
                ELSE InsertAll(CreateSchema(rebuild, goalie_stats, EmptyTable),
                               goalies)
          /\ standings' =
                IF Violates(skaters) \/ Violates(goalies)
                THEN CreateSchema(rebuild, standings, EmptyTable)
                ELSE InsertAll(CreateSchema(rebuild, standings, EmptyTable),
                               StandingRows(LoadJson(File(StandingsJson))))
          /\ loader_raised' = (Violates(skaters) \/ Violates(goalies))
    /\ UNCHANGED <<program, skater_file, goalie_file, players_json>>

\* The collector saves the statistics it gathered for the season.
SaveStats(skaters, goalies) ==
    /\ program = "nhl"
    /\ <<skater_file, goalie_file>> # <<File(skaters), File(goalies)>>
    /\ skater_file' = File(skaters)
    /\ goalie_file' = File(goalies)
    /\ UNCHANGED <<program, runs, players_json, teams, players, skater_stats,
                   goalie_stats, standings, loader_raised>>

StatFiles(records) == {<<>>} \cup {<<r>> : r \in records}

NhlInit ==
    /\ skater_file \in {Missing} \cup {File(d) : d \in StatFiles(SkaterRecords)}
    /\ goalie_file = Missing
    /\ players_json \in {Missing} \cup {File(d) : d \in PlayerLists}
    /\ teams = {}
    /\ players = {}
    /\ skater_stats = EmptyTable
    /\ goalie_stats = EmptyTable
    /\ standings = EmptyTable
    /\ loader_raised = FALSE

NhlIdle ==
    /\ skater_file = Missing
    /\ goalie_file = Missing
    /\ players_json = Missing
    /\ teams = {}
    /\ players = {}
    /\ skater_stats = EmptyTable
    /\ goalie_stats = EmptyTable
    /\ standings = EmptyTable
    /\ loader_raised = FALSE

\* ------------------------------------------------------------------------
\* collect_rosters
\* ------------------------------------------------------------------------
Abbrevs == {"BOS", "TOR", "NYR"}
\* The team lists given: abbreviations may be empty, the others are distinct.
TeamLists ==
    {ts \in UNION {[1..n -> Abbrevs \cup {""}] : n \in 1..3} :
        \A i, j \in DOMAIN ts : (i # j /\ ts[i] = ts[j]) => ts[i] = ""}

\* What get_team_roster returns: a roster (players by their "id", 0 for a
\* player without one), or JSON null.
Rosters ==
    {[null |-> TRUE, forwards |-> <<>>, defensemen |-> <<>>, goalies |-> <<>>],
     [null |-> FALSE, forwards |-> <<>>, defensemen |-> <<>>, goalies |-> <<>>],
     [null |-> FALSE, forwards |-> <<8>>, defensemen |-> <<>>, goalies |-> <<30>>],
     [null |-> FALSE, forwards |-> <<8, 0>>, defensemen |-> <<9>>, goalies |-> <<>>]}

\* d[k] = v on a dict kept as the sequence of its items: a key already there
\* keeps its place.
RECURSIVE DictSet(_, _, _)
DictSet(d, k, v) ==
    IF d = <<>> THEN <<<<k, v>>>>
    ELSE IF d[1][1] = k THEN <<<<k, v>>>> \o Tail(d)
    ELSE <<d[1]>> \o DictSet(Tail(d), k, v)

\* The flattening loop: every player with a truthy id is entered under it.
RECURSIVE Flatten(_, _, _)
Flatten(d, ids, abbrev) ==
    IF ids = <<>> THEN d
    ELSE Flatten(IF ids[1] # 0
                 THEN DictSet(d, ids[1], [id |-> ids[1], team_abbrev |-> abbrev])
                 ELSE d,
                 Tail(ids), abbrev)

\* (variant of OnFetchError in which the failed team is recorded with no data)
OnFetchErrorRecordEmpty(abbrev) ==
    /\ roster_log' = Append(roster_log, abbrev)
    /\ rosters_by_team' =
          DictSet(rosters_by_team, abbrev,
                  [null |-> TRUE, forwards |-> <<>>, defensemen |-> <<>>,
                   goalies |-> <<>>])
    /\ UNCHANGED <<all_players, roster_files>>

\* The except branch of the loop body when get_team_roster raised: the
\* failure is logged and nothing is recorded.
OnFetchError(abbrev) ==
    /\ roster_log' = Append(roster_log, abbrev)
    /\ UNCHANGED <<rosters_by_team, all_players, roster_files>>

\* One iteration of the loop over the teams.  fetch: <<FALSE, _>> when
\* get_team_roster raises, <<TRUE, roster>> when it returns.
RosterStep(fetch) ==
    /\ roster_pc = "loop"
    /\ roster_i < Len(roster_teams)
    /\ roster_i' = roster_i + 1
    /\ LET abbrev == roster_teams[roster_i + 1]
       IN IF abbrev = ""
          THEN UNCHANGED <<rosters_by_team, all_players, roster_files,
                           roster_log, roster_raised>>
          ELSE IF ~fetch[1]
          THEN OnFetchError(abbrev)
               /\ roster_raised' = roster_raised \cup {abbrev}
          ELSE /\ roster_files' = roster_files \cup {abbrev}
               /\ rosters_by_team' = DictSet(rosters_by_team, abbrev, fetch[2])
               /\ all_players' =
                     IF fetch[2].null THEN all_players
                     ELSE Flatten(all_players,
                                  fetch[2].forwards \o fetch[2].defensemen
                                      \o fetch[2].goalies,
                                  abbrev)
               /\ roster_log' = IF fetch[2].null
                                THEN Append(roster_log, abbrev) ELSE roster_log
               /\ UNCHANGED roster_raised
    /\ UNCHANGED <<roster_teams, roster_pc, players_json>>

\* After the loop: the master player list is saved and the dict returned.
RosterFinish ==
    /\ roster_pc = "loop"
    /\ roster_i = Len(roster_teams)
    /\ roster_pc' = "done"
    /\ players_json' = File([i \in DOMAIN all_players |-> all_players[i][2]])
    /\ UNCHANGED <<roster_teams, roster_i, rosters_by_team, all_players,
                   roster_files, roster_log, roster_raised>>

RosterInit ==
    /\ roster_teams \in TeamLists
    /\ roster_i = 0
    /\ roster_pc = "loop"
    /\ rosters_by_team = <<>>
    /\ all_players = <<>>
    /\ roster_files = {}
    /\ roster_log = <<>>
    /\ roster_raised = {}

RosterIdle ==
    /\ roster_teams = <<>>
    /\ roster_i = 0
    /\ roster_pc = "off"
    /\ rosters_by_team = <<>>
    /\ all_players = <<>>
    /\ roster_files = {}
    /\ roster_log = <<>>
    /\ roster_raised = {}

\* ------------------------------------------------------------------------
\* collect_skater_stats (collect_goalie_stats has the same loop)
\* ------------------------------------------------------------------------
\* The "data" of the page get_skater_stats_summary(start, limit) returns.
PageData(start, limit) ==
    SubSeq(pg_upstream, start + 1, Min(start + limit, Len(pg_upstream)))
\* The "total" of every page.
PageTotal == Len(pg_upstream)

\* The entries appended to all_skaters for a page.
SkaterEntries(page) ==
    [i \in DOMAIN page |->
        [player_id |-> page[i].player_id, goals |-> page[i].goals]]

\* One iteration of the while loop.  ok: the page request returns; when it
\* raises, the except branch logs a warning and leaves the loop.
CollectPage(ok) ==
    /\ pg_pc = "loop"
    /\ IF ~ok
       THEN /\ pg_pc' = "break"
            /\ pg_failed' = TRUE
            /\ UNCHANGED <<pg_start, pg_all>>
       ELSE IF PageData(pg_start, PageSize) = <<>>
       THEN /\ pg_pc' = "break"
            /\ UNCHANGED <<pg_start, pg_all, pg_failed>>
       ELSE /\ pg_all' = pg_all \o SkaterEntries(PageData(pg_start, PageSize))
            /\ pg_start' = pg_start + PageSize
            /\ pg_pc' = IF pg_start + PageSize >= PageTotal
                        THEN "break" ELSE "loop"
            /\ UNCHANGED pg_failed
    /\ UNCHANGED <<pg_upstream, skater_file>>

\* After the loop: save_json of all_skaters, which is returned.
SaveSkaters ==
    /\ pg_pc = "break"
    /\ pg_pc' = "done"
    /\ skater_file' = File(pg_all)
    /\ UNCHANGED <<pg_upstream, pg_start, pg_all, pg_failed>>

PageInit ==
    /\ pg_upstream \in UNION {[1..n -> SkaterRecords] : n \in 0..MaxRecords}
    /\ pg_start = 0
    /\ pg_all = <<>>
    /\ pg_pc = "loop"
    /\ pg_failed = FALSE

PageIdle ==
    /\ pg_upstream = <<>>
    /\ pg_start = 0
    /\ pg_all = <<>>
    /\ pg_pc = "off"
    /\ pg_failed = FALSE

\* ------------------------------------------------------------------------
\* Specifications
\* ------------------------------------------------------------------------
StoreIdle ==
    /\ program = "none" /\ runs = 0
    /\ GolfIdle /\ NflIdle /\ NhlIdle /\ RosterIdle /\ PageIdle /\ ExtraIdle

\* The HTTP clients.
Init == HttpInit /\ StoreIdle
Next ==
    \/ \E k \in Keys, t \in TtlSet : Request(k, t) /\ UNCHANGED storeVars
    \/ NextPage /\ UNCHANGED storeVars
    \/ \E s \in StatusSet, b \in Payloads \cup {BadJson} :
          HttpAttempt(s, b) /\ UNCHANGED storeVars
    \/ Tick /\ UNCHANGED storeVars
Spec == Init /\ [][Next]_vars

\* The NFL client over an upstream that serves an endpoint in finitely many
\* pages and answers every request: calls of _get_all_pages, one after the
\* other.  The loop of the call goes on by itself and every request is
\* answered, hence the weak fairness of these two steps.
PagingInit ==
    /\ HttpInit /\ client = "nfl"
    /\ program = "none" /\ runs = 0
    /\ GolfIdle /\ NflIdle /\ NhlIdle /\ RosterIdle /\ PageIdle
    /\ PersistIdle /\ SnapshotIdle /\ RestartInit /\ ExitInit /\ RebuildInit
    /\ SkaterIdle /\ StandingsInit /\ TxnInit
    /\ feed \in Feeds
Answered == HttpAttempt(200, feed[key]) /\ UNCHANGED storeVars
Continued == NextPage /\ UNCHANGED storeVars
PagingNext ==
    \/ \E t \in TtlSet : Request("k1", t) /\ UNCHANGED storeVars
    \/ Continued
    \/ Answered
    \/ Tick /\ UNCHANGED storeVars
SpecPaging ==
    PagingInit /\ [][PagingNext]_vars /\ WF_vars(Continued) /\ WF_vars(Answered)

\* The collectors and loaders over their databases.
HttpIdle ==
    /\ client = "nhl" /\ use_cache = TRUE
    /\ cache = [k \in Keys |-> NoFile]
    /\ elapsed = RATE_LIMIT_DELAY(client)
    /\ pc = "idle" /\ key = "k1" /\ ttl_arg = NoTtl /\ attempts = 0
    /\ lastStatus = NoStatus /\ all_data = <<>>
    /\ result = [kind |-> "none", value |-> None]
    /\ look = [present |-> FALSE, expired |-> FALSE, gets |-> 0, seq |-> 0,
               key |-> "k1"]
    /\ trail = <<>>
    /\ called = FALSE /\ sinceDone = RATE_LIMIT_DELAY(client)

StoreInit ==
    /\ HttpIdle
    /\ runs = 0
    /\ program \in {"golf", "nfl", "nhl"}
    /\ IF program = "golf" THEN GolfInit ELSE GolfIdle
    /\ IF program = "nfl" THEN NflInit ELSE NflIdle
    /\ IF program = "nhl" THEN NhlInit ELSE NhlIdle
    /\ RosterIdle /\ PageIdle /\ ExtraIdle
StoreNext ==
    \/ \E sched_ok \in BOOLEAN, ok \in [Range(Tournaments) -> BOOLEAN] :
          /\ GolfRun(sched_ok, ok)
          /\ UNCHANGED <<httpVars, nflVars, nhlVars, rosterVars, pageVars,
                     extraVars>>
    \/ \E t \in Range(Tournaments) :
          /\ CompleteTournament(t)
          /\ UNCHANGED <<httpVars, nflVars, nhlVars, rosterVars, pageVars,
                     extraVars>>
    \/ \E rebuild, teams_ok, reg_ok, post_ok \in BOOLEAN,
          st \in {<<FALSE, <<>>>>} \cup
                 {<<TRUE, sp>> : sp \in StandingPayloads} :
          /\ NflRun(rebuild, teams_ok, st, reg_ok, post_ok)
          /\ UNCHANGED <<httpVars, golfVars, nhlVars, rosterVars, pageVars,
                     extraVars>>
    \/ \E b \in {0, 1}, stats \in StatPayloads :
          /\ NflUpstreamChange(b, stats)
          /\ UNCHANGED <<httpVars, golfVars, nhlVars, rosterVars, pageVars,
                     extraVars>>
    \/ \E rebuild \in BOOLEAN :
          /\ RunLoader(rebuild)
          /\ UNCHANGED <<httpVars, golfVars, nflVars, rosterVars, pageVars,
                     extraVars>>
    \/ \E d \in StatFiles(SkaterRecords), g \in StatFiles(GoalieRecords) :
          /\ SaveStats(d, g)
          /\ UNCHANGED <<httpVars, golfVars, nflVars, rosterVars, pageVars,
                     extraVars>>
SpecStore == StoreInit /\ [][StoreNext]_vars

\* The golf collector alone: runs of run_collector, calls of
\* build_season_stats, tournaments ending.
GolfOnlyInit ==
    /\ HttpIdle
    /\ runs = 0
    /\ program = "golf"
    /\ GolfInit /\ NflIdle /\ NhlIdle /\ RosterIdle /\ PageIdle /\ ExtraIdle
GolfFrame == UNCHANGED <<httpVars, nflVars, nhlVars, rosterVars, pageVars,
                     extraVars>>
GolfOnlyNext ==
    \/ \E sched_ok \in BOOLEAN, ok \in [Range(Tournaments) -> BOOLEAN] :
          GolfRun(sched_ok, ok) /\ GolfFrame
    \/ \E t \in Range(Tournaments) : CompleteTournament(t) /\ GolfFrame
    \/ BuildOnly /\ GolfFrame
SpecGolf == GolfOnlyInit /\ [][GolfOnlyNext]_vars

\* collect_rosters on a list of teams; the loop always proceeds.
RostersInit ==
    /\ HttpIdle
    /\ program = "nhl" /\ runs = 0
    /\ GolfIdle /\ NflIdle /\ NhlIdle /\ PageIdle /\ ExtraIdle
    /\ RosterInit
RosterFrame ==
    UNCHANGED <<httpVars, program, runs, golfVars, nflVars, skater_file,
                goalie_file, teams, players, skater_stats, goalie_stats,
                standings, loader_raised, pageVars, extraVars>>
RostersNext ==
    \/ \E fetch \in {<<FALSE, [null |-> TRUE]>>} \cup
                     {<<TRUE, r>> : r \in Rosters} :
          RosterStep(fetch) /\ RosterFrame
    \/ RosterFinish /\ RosterFrame
SpecRosters == RostersInit /\ [][RostersNext]_vars /\ WF_vars(RostersNext)

\* ------------------------------------------------------------------------
\* Properties of the HTTP clients (specification Spec)
\* ------------------------------------------------------------------------

\* A step that performs a cache check (look.seq flips), and one that performs
\* an HTTP attempt.
\* collect_skater_stats on one season's upstream data.
PagesInit ==
    /\ HttpIdle
    /\ program = "nhl" /\ runs = 0
    /\ GolfIdle /\ NflIdle /\ NhlIdle /\ RosterIdle /\ ExtraIdle
    /\ PageInit
PageFrame ==
    UNCHANGED <<httpVars, program, runs, golfVars, nflVars, rosterVars,
                goalie_file, players_json, teams, players, skater_stats,
                goalie_stats, standings, loader_raised, extraVars>>
PagesNext ==
    \/ \E ok \in BOOLEAN : CollectPage(ok) /\ PageFrame
    \/ SaveSkaters /\ PageFrame
SpecPages == PagesInit /\ [][PagesNext]_vars

\* One run of a collector or loader in which one database call may fail.
PersistRunInit ==
    /\ HttpIdle
    /\ program \in {"golf", "nfl", "nhl"} /\ runs = 0
    /\ GolfIdle /\ NflIdle /\ NhlIdle /\ RosterIdle /\ PageIdle
    /\ PersistInit /\ SnapshotIdle /\ RestartInit /\ ExitInit
    /\ RebuildInit /\ LaterIdle
PersistFrame ==
    UNCHANGED <<httpVars, program, runs, golfVars, nflVars, nhlVars,
                rosterVars, pageVars, snapshotVars, restartVars,
                exitVars, rebuildVars, laterVars>>
PersistNext ==
    \/ \E fetch_ok \in BOOLEAN : RunStep(fetch_ok) /\ PersistFrame
SpecPersist == PersistRunInit /\ [][PersistNext]_vars

\* Runs of a collector over its raw snapshot files, upstream changing.
SnapshotsInit ==
    /\ HttpIdle
    /\ program \in {"golf", "nhl"} /\ runs = 0
    /\ GolfIdle /\ NflIdle /\ NhlIdle /\ RosterIdle /\ PageIdle
    /\ PersistIdle /\ SnapshotInit /\ RestartInit /\ ExitInit
    /\ RebuildInit /\ LaterIdle
SnapshotFrame ==
    UNCHANGED <<httpVars, golfVars, nflVars, nhlVars, rosterVars, pageVars,
                persistVars, restartVars, exitVars, rebuildVars, laterVars>>
SnapshotsNext ==
    \/ \E ok \in [AllResources -> BOOLEAN] : SnapshotRun(ok) /\ SnapshotFrame
    \/ \E r \in AllResources, v \in Versions :
          SnapshotUpstream(r, v) /\ SnapshotFrame
SpecSnapshots == SnapshotsInit /\ [][SnapshotsNext]_vars

\* A golf run killed from outside, then started again.
RestartFrame ==
    UNCHANGED <<httpVars, nflVars, nhlVars, rosterVars, pageVars,
                persistVars, snapshotVars, exitVars, rebuildVars, laterVars>>
RestartNext ==
    \/ \E n \in 0..Len(Tournaments), torn \in BOOLEAN :
          GolfRunKilled(n, torn) /\ RestartFrame
    \/ GolfRestart /\ RestartFrame
SpecRestart == GolfOnlyInit /\ [][RestartNext]_vars

\* One invocation of a collector.
ExitRunInit ==
    /\ HttpIdle
    /\ program \in {"golf", "nfl", "nhl"} /\ runs = 0
    /\ GolfIdle /\ NflIdle /\ NhlIdle /\ RosterIdle /\ PageIdle
    /\ PersistIdle /\ SnapshotIdle /\ RestartInit /\ ExitInit
    /\ RebuildInit /\ LaterIdle
ExitFrame ==
    UNCHANGED <<httpVars, golfVars, nflVars, nhlVars, rosterVars, pageVars,
                persistVars, snapshotVars, restartVars, rebuildVars, laterVars>>
ExitNext ==
    \/ \E out \in [ExAll -> Outcomes] :
          /\ \A r \in ExAll : ~Reached(program, r, out) => out[r] = "empty"
          /\ Invoke(out) /\ ExitFrame
SpecExit == ExitRunInit /\ [][ExitNext]_vars

\* The loaders with a rebuild flag: the NFL collector and the NHL loader.
\* Between the runs the regular season statistics upstream change; the
\* postseason statistics are any payload, the same for every run.
FactRows ==
    Len(nfl_standings.rows) + Len(nfl_player_stats.rows)
      + Len(skater_stats.rows) + Len(goalie_stats.rows) + Len(standings.rows)
RebuildRunInit ==
    /\ HttpIdle
    /\ program \in {"nfl", "nhl"} /\ runs = 0
    /\ GolfIdle /\ RosterIdle /\ PageIdle /\ ExtraIdle
    /\ IF program = "nfl" THEN NflInit /\ NhlIdle ELSE NflIdle /\ NhlInit
RebuildFrame ==
    UNCHANGED <<httpVars, golfVars, rosterVars, pageVars, persistVars,
                snapshotVars, restartVars, exitVars, laterVars>>
Flag(rebuild) == IF rebuild THEN "rebuild" ELSE "keep"
RebuildNext ==
    \/ \E rebuild, teams_ok, reg_ok, post_ok \in BOOLEAN,
          st \in {<<FALSE, <<>>>>} \cup ({TRUE} \X StandingPayloads) :
          /\ NflRun(rebuild, teams_ok, st, reg_ok, post_ok)
          /\ rb_last' = Flag(rebuild) /\ rb_before' = FactRows
          /\ RebuildFrame /\ UNCHANGED nhlVars
    \/ \E stats \in StatPayloads :
          /\ NflUpstreamChange(0, stats)
          /\ RebuildFrame /\ UNCHANGED <<nhlVars, rebuildVars>>
    \/ \E rebuild \in BOOLEAN :
          /\ RunLoader(rebuild)
          /\ rb_last' = Flag(rebuild) /\ rb_before' = FactRows
          /\ RebuildFrame /\ UNCHANGED nflVars
    \/ \E skaters \in StatFiles(SkaterRecords),
          goalies \in StatFiles(GoalieRecords) :
          /\ SaveStats(skaters, goalies)
          /\ RebuildFrame /\ UNCHANGED <<nflVars, rebuildVars>>
SpecRebuild == RebuildRunInit /\ [][RebuildNext]_vars

\* What the parts below leave alone.
StoreFrameOthers ==
    UNCHANGED <<httpVars, nflVars, nhlVars, rosterVars, pageVars, persistVars,
                snapshotVars, restartVars, exitVars, rebuildVars>>
StoreFrame ==
    UNCHANGED <<httpVars, program, runs, golfVars, nflVars, nhlVars,
                rosterVars, pageVars, persistVars, snapshotVars, restartVars,
                exitVars, rebuildVars>>

\* get_teams and get_standings calls of one NHL client, in any order.
StandingsRunInit ==
    /\ HttpIdle
    /\ program = "nhl" /\ runs = 0
    /\ GolfIdle /\ NflIdle /\ NhlIdle /\ RosterIdle /\ PageIdle
    /\ PersistIdle /\ SnapshotIdle /\ RestartInit /\ ExitInit /\ RebuildInit
    /\ SkaterIdle /\ StandingsInit /\ FeedIdle /\ TxnInit
StandingsNext ==
    \/ \E call \in Calls, ok \in BOOLEAN :
          GetStandings(call, ok) /\ StoreFrame /\ UNCHANGED <<skaterVars, feed, txnVars>>
    \/ StandingsTick /\ StoreFrame /\ UNCHANGED <<skaterVars, feed, txnVars>>
    \/ \E v \in Versions :
          StandingsChange(v) /\ StoreFrame /\ UNCHANGED <<skaterVars, feed, txnVars>>
SpecStandings == StandingsRunInit /\ [][StandingsNext]_vars

\* One skater record, collected and then loaded.
SkaterRunInit ==
    /\ HttpIdle
    /\ program = "nhl" /\ runs = 0
    /\ GolfIdle /\ NflIdle /\ NhlIdle /\ RosterIdle /\ PageIdle
    /\ PersistIdle /\ SnapshotIdle /\ RestartInit /\ ExitInit /\ RebuildInit
    /\ SkaterInit /\ StandingsInit /\ FeedIdle /\ TxnInit
SkaterNext ==
    \/ CollectSkater /\ StoreFrame /\ UNCHANGED <<standingsVars, feed, txnVars>>
    \/ LoadSkater /\ StoreFrame /\ UNCHANGED <<standingsVars, feed, txnVars>>
SpecSkater == SkaterRunInit /\ [][SkaterNext]_vars

\* Golf collector runs with build_season_stats taken statement by
\* statement, and another connection reading the aggregate table.
TxnFrame ==
    StoreFrameOthers /\ UNCHANGED <<skaterVars, standingsVars, feed>>
TxnNext ==
    \/ \E sched_ok \in BOOLEAN, ok \in [Range(Tournaments) -> BOOLEAN] :
          GolfLoad(sched_ok, ok) /\ TxnFrame
    \/ \E t \in Range(Tournaments) :
          CompleteTournament(t) /\ TxnFrame /\ UNCHANGED txnVars
    \/ TxDelete /\ TxnFrame
    \/ \E ok \in BOOLEAN : TxInsert(ok) /\ TxnFrame
    \/ TxCommit /\ TxnFrame
    \/ TxAbort /\ TxnFrame
    \/ TxRead /\ TxnFrame
SpecTxn == GolfOnlyInit /\ [][TxnNext]_vars

\* C1: a golf collector run that follows a completed run for the same year,
\* with upstream unchanged and the raw leaderboard file of every completed
\* tournament in place, leaves golf_results and golf_player_season_stats with
\* the rows (id aside) the first run left.
C1_GolfRerunIdempotent ==
    [][(/\ program = "golf" /\ runs' = runs + 1
        /\ golf_fresh /\ golf_fresh'
        /\ \A t \in completed : raw_results[t].exists)
       => /\ NoId(golf_results') = NoId(golf_results)
          /\ NoId(golf_player_season_stats') =
                NoId(golf_player_season_stats)]_vars

\* C2: after any number of runs no fact table holds two rows with the same
\* natural key: (player_id, season) in skater_stats and goalie_stats,
\* (player_id, tourn_id, year) in golf_results, (season, postseason,
\* player_id) in nfl_player_stats.
C2_NaturalKeyUnique ==
    /\ \A i, j \in DOMAIN skater_stats.rows :
          (/\ skater_stats.rows[i].row.player_id
                = skater_stats.rows[j].row.player_id
           /\ skater_stats.rows[i].row.season
                = skater_stats.rows[j].row.season) => i = j
    /\ \A i, j \in DOMAIN goalie_stats.rows :
          (/\ goalie_stats.rows[i].row.player_id
                = goalie_stats.rows[j].row.player_id
           /\ goalie_stats.rows[i].row.season
                = goalie_stats.rows[j].row.season) => i = j
    /\ \A i, j \in DOMAIN golf_results :
          (/\ golf_results[i].row.player_id = golf_results[j].row.player_id
           /\ golf_results[i].row.tourn_id = golf_results[j].row.tourn_id
           /\ golf_results[i].row.year = golf_results[j].row.year) => i = j
    /\ \A i, j \in DOMAIN nfl_player_stats.rows :
          (/\ nfl_player_stats.rows[i].row.season
                = nfl_player_stats.rows[j].row.season
           /\ nfl_player_stats.rows[i].row.postseason
                = nfl_player_stats.rows[j].row.postseason
           /\ nfl_player_stats.rows[i].row.player_id
                = nfl_player_stats.rows[j].row.player_id) => i = j

\* C3: after any NFL collector runs for a season nfl_player_stats holds
\* exactly one row per (season, postseason, player_id) upstream returned,
\* with the values of the latest run that returned the key, records without
\* a player id included; a repeat run on unchanged upstream data adds no row
\* and changes no value.
C3_NflUpsert ==
    /\ [](/\ {r.row : r \in Range(nfl_player_stats.rows)} = nfl_latest
          /\ Len(nfl_player_stats.rows) = Cardinality(nfl_latest))
    /\ [][(/\ program = "nfl" /\ runs' = runs + 1
            /\ nfl_fresh /\ nfl_fresh')
           => NoId(nfl_player_stats'.rows) = NoId(nfl_player_stats.rows)]_vars

IsLookup == look'.seq # look.seq
IsAttempt == attempts' = attempts + 1

\* C4: in all three clients a cache entry older than the TTL supplied for the
\* request is never returned (the request goes to the network and the fresh
\* response overwrites the entry), and an entry whose age is at most that TTL
\* is returned.
C4_StaleNeverServed ==
    /\ [][(IsLookup /\ look'.present) =>
            /\ (look'.expired => look'.gets = 1 /\ pc' = "inflight")
            /\ (~look'.expired => look'.gets = 0 /\ pc' # "inflight")]_vars
    /\ [][(IsAttempt /\ use_cache /\ look.expired /\ result'.kind = "fetched")
            => cache'[key].age = 0]_vars

\* C5: with caching on, a request repeated within the TTL window makes no
\* network call, and one repeated after the window has passed makes exactly
\* one.
C5_CacheCorrectness ==
    [][(IsLookup /\ use_cache /\ look'.present) =>
          look'.gets = (IF look'.expired THEN 1 ELSE 0)]_vars

\* C6: the start of every outbound request but the first comes at least
\* RATE_LIMIT_DELAY after the completion of the one before it, whatever the
\* endpoint and whether that one succeeded or failed.
C6_RateLimit ==
    [][(pc # "inflight" /\ pc' = "inflight" /\ called) =>
          sinceDone' >= (CASE client = "nhl" -> 4 [] client = "golf" -> 6
                           [] OTHER -> 11)]_vars
\* A request starts while the one before it has just failed.
C6_Witness ==
    /\ pc = "inflight" /\ called /\ attempts = 0
    /\ sinceDone = RATE_LIMIT_DELAY(client)

\* C7: a cache hit makes no network call, does not wait for the rate limit
\* (no time passes) and leaves the time of the last request as it was.
C7_HitFrame ==
    [][(IsLookup /\ look'.gets = 0) =>
          /\ pc' # "inflight"
          /\ elapsed' = elapsed /\ sinceDone' = sinceDone
          /\ cache' = cache /\ called' = called]_vars
\* A hit at a moment when a request to the network would have had to wait.
C7_Witness ==
    /\ look.gets = 0 /\ look.present /\ pc = "idle"
    /\ called /\ elapsed < RATE_LIMIT_DELAY(client)

\* C8: after every successful network call with caching on the parsed body
\* is in the cache under the request's key whatever it is, and a repeat of
\* the request within the TTL is served from that entry with no network call.
C8_EveryBodyCached ==
    /\ [][(IsAttempt /\ use_cache /\ lastStatus' = 200
            /\ result'.value # "JSONDecodeError")
            => (cache'[key] # NoFile /\ cache'[key].age = 0)]_vars
    /\ [][(IsLookup /\ look'.present /\ ~look'.expired)
            => (look'.gets = 0 /\ pc' # "inflight")]_vars

\* C9: a GET is sent again only after 429/500/502/503/504 or a transport
\* failure, at most 4 (NHL) or 3 (golf, NFL) times; any other 4xx ends the
\* call at once; a call that ends on a failed response raises and yields no
\* value.
C9_BoundedRetry ==
    /\ [](attempts <= (IF client = "nhl" THEN 4 ELSE 3) + 1)
    /\ [][IsAttempt =>
            /\ (pc' = "inflight" =>
                   lastStatus' \in {429, 500, 502, 503, 504, TransportError})
            /\ (lastStatus' \in 400..499 \ {429} =>
                   pc' = "idle" /\ result'.kind = "raise")
            /\ (lastStatus' # 200 /\ pc' # "inflight" =>
                   result'.kind = "raise")]_vars
    /\ [](result.kind \in {"fetched", "hit"} => lastStatus \in {200, NoStatus})
\* A call has raised after using up its retries on a forcelist status.
C9_Witness ==
    /\ result = [kind |-> "raise", value |-> "RetryError"]
    /\ attempts = RetryTotal(client) + 1


\* The abbreviations under which rosters_by_team holds a roster, in order.
RosterKeys == [i \in DOMAIN rosters_by_team |-> rosters_by_team[i][1]]

\* C10: when get_team_roster raises for a team, collect_rosters still runs
\* to its end; every other team with a non-empty abbreviation has its roster
\* fetched, saved and recorded, in the order the teams were given; the
\* failure is logged; and the failed team is absent from rosters_by_team and
\* from the player list written to all_players.json.
C10_RosterPartialFailure ==
    /\ <>(roster_pc = "done")
    /\ [](roster_pc = "done" =>
            /\ RosterKeys = SelectSeq(roster_teams,
                               LAMBDA a : a # "" /\ a \notin roster_raised)
            /\ roster_files = Range(RosterKeys)
            /\ players_json.exists
            /\ \A a \in roster_raised :
                  /\ a \in Range(roster_log)
                  /\ a \notin Range(RosterKeys)
                  /\ \A i \in DOMAIN players_json.data :
                        players_json.data[i].team_abbrev # a)
\* The second of three teams failed and both others brought players.
C10_Witness ==
    /\ roster_pc = "done" /\ Len(roster_teams) = 3
    /\ roster_raised = {roster_teams[2]}
    /\ Len(rosters_by_team) = 2
    /\ {players_json.data[i].team_abbrev : i \in DOMAIN players_json.data}
         = {roster_teams[1], roster_teams[3]}

\* C11: when a page request fails, a paginated fetch hands the failure to
\* its caller and drops what it gathered: it neither returns nor saves a
\* partial result as if it were the whole collection.
C11_NoPartialResult ==
    pg_failed => (pg_pc # "done" /\ ~skater_file.exists)

\* The data lists of a sequence of pages, one after the other.
RECURSIVE PagesData(_)
PagesData(pages) ==
    IF pages = <<>> THEN <<>>
    ELSE Records(Head(pages).page) \o PagesData(Tail(pages))

\* A page after which _get_all_pages reads no further page.
LastPage(p) == NextCursor(p) = None \/ Records(p) = <<>>

\* C12: _get_all_pages returns the data lists of the pages it read, one
\* after the other in the order read and with duplicates kept; page k+1 is
\* requested with the next_cursor of page k; and reading stops after the
\* first page that has no next_cursor or an empty data list.
C12_Pagination ==
    client = "nfl" =>
        /\ pc = "next" =>
              /\ all_data = PagesData(trail)
              /\ key = NextCursor(trail[Len(trail)].page)
              /\ \A i \in DOMAIN trail : ~LastPage(trail[i].page)
        /\ (pc = "inflight" /\ all_data # <<>>) =>
              look.key = NextCursor(trail[Len(trail)].page)
        /\ result.kind \in {"hit", "fetched"} =>
              /\ trail # <<>>
              /\ result.value = PagesData(trail)
              /\ LastPage(trail[Len(trail)].page)
              /\ \A i \in 1..(Len(trail) - 1) : ~LastPage(trail[i].page)
\* Two pages were read; the second repeats a record of the first.
C12_Witness ==
    /\ client = "nfl" /\ result.kind = "fetched"
    /\ Len(trail) = 2
    /\ trail[1].page = "More" /\ trail[2].page = "Data"
    /\ result.value = <<"r1", "r2", "r2">>

\* C13: every page of an NFL fetch is kept in the cache under a key of its
\* own, the key of page k+1 being made from the cursor page k gave (pages
\* asked for with the same cursor share a key, which holds the later); a page
\* whose entry is within the TTL is taken from the cache with no request, so
\* a fetch that finds every page fresh makes no network call and returns the
\* records those entries hold.
C13_PerPageCache ==
    /\ [][(client = "nfl" /\ IsLookup /\ use_cache
            /\ cache[look'.key] # NoFile
            /\ cache[look'.key].payload \notin {None, "EmptyList"}
            /\ cache[look'.key].age <= SuppliedTtl(ttl_arg'))
            => /\ look'.gets = 0 /\ pc' # "inflight" /\ called' = called
               /\ cache' = cache
               /\ trail'[Len(trail')] =
                     [key |-> look'.key, page |-> cache[look'.key].payload,
                      how |-> "hit"]]_vars
    /\ []((client = "nfl" /\ use_cache /\ result.kind \in {"hit", "fetched"})
            => /\ \A i \in DOMAIN trail :
                    /\ cache[trail[i].key] # NoFile
                    /\ (\A j \in DOMAIN trail :
                          j > i => trail[j].key # trail[i].key)
                         => cache[trail[i].key].payload = trail[i].page
               /\ \A i \in 1..(Len(trail) - 1) :
                    trail[i + 1].key = NextCursor(trail[i].page)
               /\ (\A i \in DOMAIN trail : trail[i].how = "hit")
                    => result.value = PagesData(trail))
\* A two-page fetch served wholly from entries written some time before.
C13_Witness ==
    /\ client = "nfl" /\ use_cache /\ result.kind = "hit" /\ called
    /\ Len(trail) = 2 /\ trail[1].key = "k1" /\ trail[2].key = "k2"
    /\ \A i \in DOMAIN trail :
          trail[i].how = "hit" /\ cache[trail[i].key].age > 0
    /\ result.value = <<"r1", "r2", "r2">>

\* The position strings that stand for no rank.
Sentinels == {<<"C", "U", "T">>, <<"W", "D">>, <<"D", "Q">>, <<"M", "D", "F">>}

\* C14: every stored leaderboard row whose position is a sentinel ("CUT",
\* "WD", "DQ", ...) has made_cut = 0 and no position_num, whatever its other
\* fields hold.
C14_SentinelNotCut ==
    \A i \in DOMAIN golf_results :
        Upper(golf_results[i].row.position) \in Sentinels =>
            /\ golf_results[i].row.made_cut = 0
            /\ golf_results[i].row.position_num = {}

\* C15: parse_position gives rank 1 for "1", rank 5 for "T5" and no rank for
\* "CUT" and "WD"; in every stored leaderboard row win = 1 exactly when the
\* rank is 1, and top_5 / top_10 / top_20 / top_25 = 1 exactly when the row
\* has a rank and the rank is at most 5 / 10 / 20 / 25.
C15_PositionFlags ==
    /\ ParsePosition(<<"1">>) = {1}
    /\ ParsePosition(<<"T", "5">>) = {5}
    /\ ParsePosition(<<"C", "U", "T">>) = {}
    /\ ParsePosition(<<"W", "D">>) = {}
    /\ \A i \in DOMAIN golf_results :
          LET r == golf_results[i].row
          IN /\ r.position_num = ParsePosition(r.position)
             /\ r.win = 1 <=> r.position_num = {1}
             /\ r.top_5 = 1 <=> \E x \in r.position_num : x <= 5
             /\ r.top_10 = 1 <=> \E x \in r.position_num : x <= 10
             /\ r.top_20 = 1 <=> \E x \in r.position_num : x <= 20
             /\ r.top_25 = 1 <=> \E x \in r.position_num : x <= 25
             /\ {r.win, r.top_5, r.top_10, r.top_20, r.top_25} \subseteq {0, 1}

\* C16: a build of the season statistics that follows a build, golf_results
\* being the same, leaves every column of every row of
\* golf_player_season_stats as the first build left it.
C16_RebuildIdentical ==
    [][(/\ program = "golf" /\ runs' = runs + 1
        /\ golf_results' = golf_results)
       => golf_player_season_stats' = golf_player_season_stats]_vars

\* The rows of golf_results in a (player_id, year) group, by index.
FactGroup(pl, y) ==
    {i \in DOMAIN golf_results : /\ golf_results[i].row.player_id = pl
                                 /\ golf_results[i].row.year = y}
\* How many rows of the group have flag col set.
FlagCount(pl, y, col) ==
    Cardinality({i \in FactGroup(pl, y) : golf_results[i].row[col] = 1})
\* The ranks of the rows of the group that have one.
GroupRanks(pl, y) ==
    UNION {golf_results[i].row.position_num : i \in FactGroup(pl, y)}

\* C17: after build_season_stats each aggregate row has events = the number
\* of fact rows of its (player_id, year) group, cuts_made, wins and top_5 ..
\* top_25 = the sum of that flag over the group, and best_finish /
\* worst_finish = the least / greatest position_num of the group's rows that
\* have one, undefined when none has.
C17_Aggregates ==
    \A k \in DOMAIN golf_player_season_stats :
        LET a == golf_player_season_stats[k].row
            ranks == GroupRanks(a.player_id, a.year)
        IN /\ a.events = Cardinality(FactGroup(a.player_id, a.year))
           /\ a.cuts_made = FlagCount(a.player_id, a.year, "made_cut")
           /\ a.wins = FlagCount(a.player_id, a.year, "win")
           /\ a.top_5 = FlagCount(a.player_id, a.year, "top_5")
           /\ a.top_10 = FlagCount(a.player_id, a.year, "top_10")
           /\ a.top_20 = FlagCount(a.player_id, a.year, "top_20")
           /\ a.top_25 = FlagCount(a.player_id, a.year, "top_25")
           /\ IF ranks = {}
              THEN a.best_finish = {} /\ a.worst_finish = {}
              ELSE /\ \E m \in ranks :
                        a.best_finish = {m} /\ \A x \in ranks : m <= x
                   /\ \E m \in ranks :
                        a.worst_finish = {m} /\ \A x \in ranks : m >= x
\* A player with two results, a win and a tied fifth place.
C17_Witness ==
    \E k \in DOMAIN golf_player_season_stats :
        LET a == golf_player_season_stats[k].row
        IN /\ a.events = 2 /\ a.wins = 1 /\ a.top_5 = 2 /\ a.cuts_made = 2
           /\ a.best_finish = {1} /\ a.worst_finish = {5}

\* C18: after build_season_stats every aggregate row has events > 0, and
\* cut_pct and win_pct are cuts_made / events x 100 and wins / events x 100
\* rounded to one decimal (a half rounds up), between 0 and 100.  The
\* percentages are held in tenths of a percent.
C18_Percentages ==
    \A k \in DOMAIN golf_player_season_stats :
        LET a == golf_player_season_stats[k].row
        IN /\ a.events > 0
           /\ a.cut_pct \in 0..1000 /\ a.win_pct \in 0..1000
           /\ 2 * a.cut_pct * a.events <= 2000 * a.cuts_made + a.events
           /\ 2 * a.cut_pct * a.events > 2000 * a.cuts_made - a.events
           /\ 2 * a.win_pct * a.events <= 2000 * a.wins + a.events
           /\ 2 * a.win_pct * a.events > 2000 * a.wins - a.events
\* Three fact rows of one player, two with the cut made and none a win:
\* 66.7 and 0.0.
C18_Witness ==
    \E k \in DOMAIN golf_player_season_stats :
        LET a == golf_player_season_stats[k].row
        IN /\ a.events = 3 /\ a.cuts_made = 2 /\ a.wins = 0
           /\ a.cut_pct = 667 /\ a.win_pct = 0

\* The (player_id, year) pairs of a table's rows.
PairsOf(table) ==
    {<<table[i].row.player_id, table[i].row.year>> : i \in DOMAIN table}
\* The rows of golf_player_season_stats for a pair, by index.
StatRowsOf(pair) ==
    {k \in DOMAIN golf_player_season_stats :
        /\ golf_player_season_stats[k].row.player_id = pair[1]
        /\ golf_player_season_stats[k].row.year = pair[2]}

\* C19 as stated: after build_season_stats golf_player_season_stats holds
\* exactly one row for each (player_id, year) pair present in golf_results
\* and no other row.
C19_OneRowPerPair ==
    /\ \A pair \in PairsOf(golf_results) : Cardinality(StatRowsOf(pair)) = 1
    /\ PairsOf(golf_player_season_stats) \subseteq PairsOf(golf_results)

\* C19, amended: after build_season_stats golf_player_season_stats holds
\* exactly one row for each (player_id, year) pair present in golf_results
\* whose player_id is not empty, and no other row.
C19_OneRowPerPlayer ==
    /\ \A pair \in PairsOf(golf_results) :
          pair[1] # "" => Cardinality(StatRowsOf(pair)) = 1
    /\ \A pair \in PairsOf(golf_player_season_stats) :
          pair[1] # "" /\ pair \in PairsOf(golf_results)
\* After a second build: two players with results, three fact rows, one of
\* them without a player id, and one aggregate row for each player.
C19_Witness ==
    /\ Len(golf_results) = 3 /\ runs = 2
    /\ Cardinality(PairsOf(golf_results)) = 2
    /\ <<"", YEAR>> \in PairsOf(golf_results)
    /\ Len(golf_player_season_stats) = 1
    /\ golf_player_season_stats[1].id > 1

\* A fact row of tournament t for player pl with rank n is in table.
HasResult(table, t, pl, n) ==
    \E i \in DOMAIN table : /\ table[i].row.tourn_id = t
                            /\ table[i].row.player_id = pl
                            /\ table[i].row.position_num = {n}

\* C20: when one collector run has loaded a player's result with rank 3 in
\* one tournament and a later run loads the player's result with rank 1 in
\* another tournament of the year, the aggregate row built by the later run
\* for the player and year has events = 2, wins = 1, top_5 = 2 and
\* best_finish = 1.
C20_EndToEnd ==
    [][\A pl \in {"p1", "p2"}, ta, tb \in Range(Tournaments) :
        (/\ program = "golf" /\ runs' = runs + 1 /\ ta # tb
         /\ HasResult(golf_results, ta, pl, 3)
         /\ \A i \in DOMAIN golf_results :
               golf_results[i].row.tourn_id # tb
         /\ HasResult(golf_results', tb, pl, 1))
        => \E k \in DOMAIN golf_player_season_stats' :
              LET a == golf_player_season_stats'[k].row
              IN /\ a.player_id = pl /\ a.year = YEAR
                 /\ a.events = 2 /\ a.wins = 1 /\ a.top_5 = 2
                 /\ a.best_finish = {1}]_vars

\* C21: in every collector and loader a database call that raises while
\* rows are loaded ends the run: the exception leaves run_collector /
\* run_loader, no step of the run comes after it, and it is not caught and
\* logged.
C21_PersistenceFatal ==
    \A i \in DOMAIN pe_steps :
        pe_steps[i].outcome = "persistence_error" =>
            /\ i = Len(pe_steps)
            /\ pe_state = "raised"
            /\ pe_steps[i].name \notin pe_logged

\* C22: after a run, every snapshot file the run covers (it reached the
\* resource and no request for it failed) holds the data upstream had for
\* the resource during the run, not what an earlier run saved.
C22_SnapshotOverwritten ==
    [][runs' = runs + 1 =>
         \A r \in Range(Resources(program)) :
             sn_run'[r] \in {"saved", "kept"} => sn_files'[r] = sn_upstream[r]]_vars

\* C23: a run started again after a run that was killed at any point ends
\* with the store an uninterrupted run on the same upstream data leaves: the
\* same rows in golf_results, with no key twice, the season statistics built
\* from them, and no failure caused by a file the kill left half-written.
C23_RestartEqualsUninterrupted ==
    [][(program = "golf" /\ rs_killed /\ runs' = runs + 1) =>
          /\ ~rs_raised'
          /\ NoId(golf_results') =
                NoId(CollectAll(CompletedSeq,
                                [t \in Range(Tournaments) |-> NoRaw],
                                <<>>, AllOk).table)
          /\ NoId(golf_player_season_stats') =
                NoId(BuildSeasonStats(
                        CollectAll(CompletedSeq,
                                   [t \in Range(Tournaments) |-> NoRaw],
                                   <<>>, AllOk).table, <<>>))]_vars

\* C24: a collector invocation exits with a non-zero status when it
\* collected no data at all, and with status 0 when it collected data and
\* every request that failed was logged.
C24_ExitStatus ==
    ex_status # -1 =>
        /\ ex_collected = {} => ex_status # 0
        /\ (/\ ex_collected # {}
            /\ \A r \in ExAll :
                  (Reached(program, r, ex_outcome) /\ ex_outcome[r] = "failed")
                      => r \in ex_logged)
             => ex_status = 0

\* C25: after a run with the rebuild flag every row of the store was
\* written by that run (its fact rows are rows of the data the run loaded,
\* under ids that count from 1, and its teams and players are those of the
\* files read); a run without the flag removes a fact row only when it
\* stores a row of the same natural key in its place.
Replaced(old, new, Conflict(_, _)) ==
    \A i \in DOMAIN old.rows :
        old.rows[i] \notin Range(new.rows) =>
            \E j \in DOMAIN new.rows :
                /\ new.rows[j].id > old.seq
                /\ Conflict(new.rows[j].row, old.rows[i].row)
Fresh(table, data) ==
    /\ table.seq <= Len(data)
    /\ \A i \in DOMAIN table.rows :
          /\ table.rows[i].id \in 1..table.seq
          /\ table.rows[i].row \in Range(data)
C25_Rebuild ==
    [][(runs' = runs + 1) =>
         /\ (rb_last' = "rebuild" /\ program = "nfl") =>
               /\ \A i \in DOMAIN nfl_player_stats'.rows :
                     /\ nfl_player_stats'.rows[i].row \in nfl_latest'
                     /\ nfl_player_stats'.rows[i].id
                          \in 1..(Len(nfl_upstream[0]) + Len(nfl_upstream[1]))
               /\ nfl_standings'.seq <= 1
               /\ nfl_teams' \in {{}, TeamIds}
         /\ (rb_last' = "rebuild" /\ program = "nhl") =>
               /\ Fresh(skater_stats', SkaterRows(LoadJson(skater_file)))
               /\ Fresh(goalie_stats', GoalieRows(LoadJson(goalie_file)))
               /\ Fresh(standings',
                        StandingRows(LoadJson(File(StandingsJson))))
               /\ players' \subseteq Range(LoadJson(players_json))
               /\ teams' = {TeamsJson[i].id : i \in DOMAIN TeamsJson}
         /\ rb_last' = "keep" =>
               /\ Replaced(nfl_player_stats, nfl_player_stats', StatsConflict)
               /\ Replaced(nfl_standings, nfl_standings', StandingsConflict)
               /\ Range(skater_stats.rows) \subseteq Range(skater_stats'.rows)
               /\ Range(goalie_stats.rows) \subseteq Range(goalie_stats'.rows)
               /\ Range(standings.rows) \subseteq Range(standings'.rows)]_vars
C25_Witness ==
    /\ rb_last = "rebuild" /\ rb_before > 0
    /\ \/ program = "nfl" /\ nfl_player_stats.rows # <<>>
       \/ program = "nhl" /\ skater_stats.rows # <<>>

\* C26: the shooting percentage stored for a skater is goals / shots x 100
\* rounded to one decimal when shots > 0 and 0 otherwise; the points and
\* goals per game stored are the quotients rounded to three decimals when
\* games played > 0 and are no computed quotient (NULL or 0) otherwise.
C26_Rates ==
    \A row \in sk_stored :
        /\ row.shooting_pct =
              IF sk_upstream.shots > 0
              THEN {(2000 * sk_upstream.goals + sk_upstream.shots)
                       \div (2 * sk_upstream.shots)}
              ELSE {0}
        /\ IF sk_upstream.gamesPlayed > 0
           THEN /\ row.points_per_game =
                      {(2000 * sk_upstream.points + sk_upstream.gamesPlayed)
                          \div (2 * sk_upstream.gamesPlayed)}
                /\ row.goals_per_game =
                      {(2000 * sk_upstream.goals + sk_upstream.gamesPlayed)
                          \div (2 * sk_upstream.gamesPlayed)}
           ELSE /\ row.points_per_game \in {{}, {0}}
                /\ row.goals_per_game \in {{}, {0}}

\* C27: a get_standings() call without a date never returns a cached payload
\* fetched more than STANDINGS_CACHE_TTL ago, whichever of get_teams and
\* get_standings wrote the cache file and however their calls interleave.
C27_StandingsFresh ==
    (st_result.call = "get_standings" /\ st_result.kind = "hit")
        => st_result.age <= STANDINGS_CACHE_TTL
C27_Witness ==
    /\ st_result = [call |-> "get_standings", kind |-> "hit",
                    age |-> STANDINGS_CACHE_TTL]
    /\ st_got.by = "get_teams"
    /\ st_file.payload # st_upstream

\* The exceptions of a failed network request: an error status, retries
\* used up, a timeout or connection failure.
NetworkFailures == {"HTTPError", "RetryError", "ConnectionError"}

C29_Terminates ==
    /\ (pc # "idle") ~> (pc = "idle" /\ result.kind \in {"hit", "fetched"})
    /\ [](pc = "idle" /\ result.kind \in {"hit", "fetched"} =>
            /\ \A i, j \in DOMAIN trail : trail[i].key = trail[j].key => i = j
            /\ \A i \in DOMAIN trail : trail[i].page = feed[trail[i].key]
            /\ LastPage(trail[Len(trail)].page)
            /\ \A i \in 1..(Len(trail) - 1) : ~LastPage(trail[i].page))
    /\ [][(IsAttempt /\ pc' # "inflight") =>
            /\ attempts' = 1
            /\ trail'[Len(trail')].how = "fetched"
            /\ (LastPage(feed[key]) <=> pc' = "idle")]_vars
\* A call has ended after two pages, both from the network, the second of
\* which names a next cursor and holds no records.
C29_Witness ==
    /\ pc = "idle" /\ result.kind = "fetched"
    /\ Len(trail) = 2
    /\ trail[1].how = "fetched" /\ trail[2].how = "fetched"
    /\ feed["k1"] = "More" /\ feed["k2"] = "MoreEmpty"
    /\ use_cache /\ cache["k1"].age > cache["k2"].age

\* C30: build_season_stats replaces the aggregate rows in one transaction:
\* what another connection reads while the build is under way is the whole
\* table as it was before the build; when the build has committed the table
\* holds the whole new aggregate; and when the build ended without a commit
\* (the re-insert failed, or the process was stopped) the table holds the
\* rows it held before.
C30_OneTransaction ==
    /\ tx_seen.phase \in BuildPhases => tx_seen.rows = tx_seen.old
    /\ tx_phase \in BuildPhases => golf_player_season_stats = tx_old
    /\ tx_last = "committed" =>
          golf_player_season_stats = BuildSeasonStats(golf_results, tx_old)
    /\ tx_last = "aborted" => golf_player_season_stats = tx_old
\* The re-insert failed over a table that held rows, a reader saw these rows
\* after the DELETE, and they are still there.
C30_Witness ==
    /\ tx_last = "aborted" /\ tx_phase = "idle"
    /\ tx_old # <<>> /\ golf_player_season_stats = tx_old
    /\ tx_seen.phase = "failed" /\ tx_seen.rows # <<>>
    /\ NoId(BuildSeasonStats(golf_results, tx_old)) # NoId(tx_old)

====
